---- MODULE Spec2Model ----
(***************************************************************************)
(* A model of rhc, an interactive command-line HTTP client:                *)
(*   - templating.rs: substitute, unbound_in_string,                       *)
(*     list_unbound_variables, substitute_all;                             *)
(*   - interactive.rs: interactive_mode (the request picker and its        *)
(*     background loader thread) and prompt_for_variables;                 *)
(*   - environment.rs, files.rs: Environment::new, load_file,              *)
(*     list_all_environments;                                              *)
(*   - bin/main.rs: run, from the arguments to the request sent.           *)
(* Strings are sequences of one-character strings. Calls on the terminal   *)
(* and on the history file are taken to succeed; a definition file may     *)
(* fail to parse.                                                          *)
(***************************************************************************)
EXTENDS Integers, Sequences, FiniteSets, TLC

VARIABLES
    \* substitute (templating.rs): one call
    base, variables, output, is_owned, spc,
    \* substitute_all / list_unbound_variables on one RequestDefinition
    def, def0, vars, unbound_variables, tpc,
    \* interactive_mode (interactive.rs): the shared Vec<Choice> and its RwLock
    all_choices, rw_readers, rw_writer,
    \* the loader thread: its loop index and position
    loader_i, lpc,
    \* the UI thread: InteractiveState, the environments, the --environment
    \* argument, the filtered view of the current frame, what the terminal
    \* shows, the position in the loop and the value returned
    query, selected, primed, active_env_index, environments, env_path,
    filtered_choices, screen, upc, picker_result,
    \* whether the picker read Ctrl-C, and run's position around interactive_mode
    picker_ctrl_c, pick_rpc,
    \* prompt_for_variables (interactive.rs): its arguments, the history file
    \* on disk, the records buffered in the csv writer, its locals, what the
    \* terminal shows, the position in the loop, the value returned, and
    \* whether Ctrl-C was read
    names, env_name, max_history_items, history_file, writer_buf, full_history,
    created_items, prompt_query, active_history_item_index, current_name_index, result,
    filtered_history_items, prompt_screen, ppc, prompt_ret, ctrl_c,
    \* run (bin/main.rs) around the prompt: the definition, whether the
    \* request was sent, the position
    run_def, sent, rpc,
    \* run (bin/main.rs) from its arguments on: --file, --environment, --binding,
    \* whether stdout is a terminal, the files of the two directories, the
    \* environment of the selection, whether the terminal was set up, what
    \* interactive_mode was given and gave, what was printed on stderr, the error
    \* run returned, the answers of the prompt, and the request sent
    args_file, args_environment, args_binding, is_tty, definition_files, environment_files,
    selected_env, terminal, interactive, stderr, run_error, additional_vars, request

substVars == <<base, variables, output, is_owned, spc>>
tmplVars == <<def, def0, vars, unbound_variables, tpc>>
pickerVars == <<all_choices, rw_readers, rw_writer, loader_i, lpc, query, selected, primed,
                active_env_index, environments, env_path, filtered_choices, screen, upc,
                picker_result, picker_ctrl_c, pick_rpc>>
promptVars == <<names, env_name, max_history_items, history_file, writer_buf, full_history,
                created_items, prompt_query, active_history_item_index, current_name_index,
                result, filtered_history_items, prompt_screen, ppc, prompt_ret, ctrl_c,
                run_def, sent, rpc>>
runVars == <<args_file, args_environment, args_binding, is_tty, definition_files,
             environment_files, selected_env, terminal, interactive, stderr, run_error,
             additional_vars,
             request>>
allVars == <<substVars, tmplVars, pickerVars, promptVars, runVars>>

----------------------------------------------------------------------------
(* Bounds of the model *)

\* texts handed to substitute are concatenations of at most MaxPieces pieces
MaxPieces == 3

\* fields of a request definition that hold placeholders (the others hold plain text)
MaxTokenFields == 2

\* definition files under the request definition directory
MaxChoices == 3

\* characters of the picker's and the prompt's query
MaxQueryLen == 2

\* entries of the history file when the prompt opens it
MaxLog == 2

\* the history index a wrapped comparison is let raise the selection to
MaxIndex == 2

----------------------------------------------------------------------------
(* Characters and strings *)

OB == "{"
CB == "}"
NL == "\n"

\* byte value of a character (the order str::cmp and Vec<&str>::sort use)
CharCode(c) ==
    CASE c = NL -> 10
      [] c = " " -> 32
      [] c = "a" -> 97
      [] c = "b" -> 98
      [] c = "c" -> 99
      [] c = OB -> 123
      [] c = CB -> 125
      [] OTHER -> 63

RECURSIVE StrLess(_, _)
\* lexicographic byte order on strings: s < t
StrLess(s, t) ==
    IF t = <<>> THEN FALSE
    ELSE IF s = <<>> THEN TRUE
    ELSE IF CharCode(Head(s)) # CharCode(Head(t))
         THEN CharCode(Head(s)) < CharCode(Head(t))
    ELSE StrLess(Tail(s), Tail(t))

IsPrefix(p, s) == Len(p) <= Len(s) /\ SubSeq(s, 1, Len(p)) = p

Drop(s, n) == SubSeq(s, n + 1, Len(s))

HasChar(s, c) == \E i \in 1..Len(s) : s[i] = c

BraceFree(s) == ~HasChar(s, OB) /\ ~HasChar(s, CB)

Contains(s, sub) == \E i \in 0..(Len(s) - Len(sub)) : SubSeq(s, i + 1, i + Len(sub)) = sub

KeyValue(n, v) == [name |-> n, value |-> v]

----------------------------------------------------------------------------
(* templating.rs *)

\* format!("{{{}}}", var.name)
Target(name) == <<OB>> \o name \o <<CB>>

RECURSIVE ReplaceSkippingOne(_, _, _)
\* a replace that resumes one character too late after a match (faulty variant)
ReplaceSkippingOne(s, from, to) ==
    IF Len(s) < Len(from) THEN s
    ELSE IF IsPrefix(from, s)
         THEN to \o (IF Len(s) > Len(from)
                     THEN <<s[Len(from) + 1]>> \o ReplaceSkippingOne(Drop(s, Len(from) + 1), from, to)
                     ELSE <<>>)
    ELSE <<Head(s)>> \o ReplaceSkippingOne(Tail(s), from, to)

RECURSIVE Replace(_, _, _)
\* str::replace: every non-overlapping match of `from` (non-empty), found
\* left to right, is replaced by `to`; the inserted text is not searched
Replace(s, from, to) ==
    IF Len(s) < Len(from) THEN s
    ELSE IF IsPrefix(from, s) THEN to \o Replace(Drop(s, Len(from)), from, to)
    ELSE <<Head(s)>> \o Replace(Tail(s), from, to)

RECURSIVE SubstituteLoop(_, _)
\* the loop of substitute: one replace per variable, in the slice's order,
\* each on the output of the one before
SubstituteLoop(out, vs) ==
    IF vs = <<>> THEN out
    ELSE SubstituteLoop(Replace(out, Target(Head(vs).name), Head(vs).value), Tail(vs))

\* the variables applied last to first (faulty variant)
SubstituteReversed(b, vs) ==
    LET out == SubstituteLoop(b, [i \in 1..Len(vs) |-> vs[Len(vs) + 1 - i]])
    IN  IF out = b THEN [text |-> b, changed |-> FALSE]
        ELSE [text |-> out, changed |-> TRUE]

\* substitute(base, variables) -> (Cow<str>, bool)
substitute(b, vs) ==
    LET out == SubstituteLoop(b, vs)
    IN  IF out = b THEN [text |-> b, changed |-> FALSE]
        ELSE [text |-> out, changed |-> TRUE]

RECURSIVE FindClose(_, _)
\* the lazy (.+?)\} after an opening brace at position i: the first j >= i + 2
\* with s[j] = "}" such that no newline lies in i+1..j-1; 0 when there is none
FindClose(s, j) ==
    IF j > Len(s) THEN 0
    ELSE IF s[j - 1] = NL THEN 0
    ELSE IF s[j] = CB THEN j
    ELSE FindClose(s, j + 1)

RECURSIVE CapturesFrom(_, _)
\* RE.captures_iter(s) from position i on: leftmost, non-overlapping matches
\* of \{(.+?)\}, each giving its group 1
CapturesFrom(s, i) ==
    IF i > Len(s) THEN <<>>
    ELSE IF s[i] # OB THEN CapturesFrom(s, i + 1)
    ELSE LET j == IF i + 2 > Len(s) THEN 0 ELSE FindClose(s, i + 2)
         IN  IF j = 0 THEN CapturesFrom(s, i + 1)
             ELSE <<SubSeq(s, i + 1, j - 1)>> \o CapturesFrom(s, j + 1)

\* unbound_in_string(s)
unbound_in_string(s) == CapturesFrom(s, 1)

RECURSIVE InsertSorted(_, _)
InsertSorted(x, sorted) ==
    IF sorted = <<>> THEN <<x>>
    ELSE IF StrLess(Head(sorted), x) THEN <<Head(sorted)>> \o InsertSorted(x, Tail(sorted))
    ELSE <<x>> \o sorted

RECURSIVE Sort(_)
\* Vec<&str>::sort(): ascending in the byte order of the strings
Sort(l) == IF l = <<>> THEN <<>> ELSE InsertSorted(Head(l), Sort(Tail(l)))

RECURSIVE Dedup(_)
\* Vec::dedup(): of each run of consecutive equal elements the first is kept
Dedup(l) ==
    IF Len(l) <= 1 THEN l
    ELSE IF l[1] = l[2] THEN Dedup(Tail(l))
    ELSE <<Head(l)>> \o Dedup(Tail(l))

\* Option<T>
None == [some |-> FALSE, v |-> <<>>]
Some(x) == [some |-> TRUE, v |-> x]

\* Content and Option<Content> (request_definition.rs)
NoBody == [type |-> "none", text |-> <<>>, params |-> <<>>]
TextBody(t) == [type |-> "text", text |-> t, params |-> <<>>]
JsonBody(t) == [type |-> "json", text |-> t, params |-> <<>>]
UrlEncodedBody(ps) == [type |-> "urlencoded", text |-> <<>>, params |-> ps]

RECURSIVE UnboundInPairs(_)
\* for each pair: the tokens of its name, then those of its value
UnboundInPairs(ps) ==
    IF ps = <<>> THEN <<>>
    ELSE unbound_in_string(Head(ps).name) \o unbound_in_string(Head(ps).value)
         \o UnboundInPairs(Tail(ps))

\* the match on request_definition.body of list_unbound_variables
UnboundInBody(b) ==
    CASE b.type = "text" -> unbound_in_string(b.text)
      [] b.type = "json" -> unbound_in_string(b.text)
      [] b.type = "urlencoded" -> UnboundInPairs(b.params)
      [] OTHER -> <<>>

\* the same without the header names (faulty variant)
UnboundAppendedNoHeaderNames(d) ==
    unbound_in_string(d.url)
    \o UnboundInPairs([i \in 1..Len(d.headers.v) |-> KeyValue(<<>>, d.headers.v[i].value)])
    \o UnboundInPairs(d.query.v)
    \o UnboundInBody(d.body)

\* what list_unbound_variables appends to result before sorting it:
\* URL, headers, query parameters, body
UnboundAppended(d) ==
    unbound_in_string(d.url)
    \o UnboundInPairs(d.headers.v)
    \o UnboundInPairs(d.query.v)
    \o UnboundInBody(d.body)

\* list_unbound_variables(request_definition)
list_unbound_variables(d) == Dedup(Sort(UnboundAppended(d)))

\* let (new, is_owned) = substitute(field, vars); if is_owned { field = new }
SubstituteField(field, vs) ==
    LET r == substitute(field, vs) IN IF r.changed THEN r.text ELSE field

\* only the values of the pairs (faulty variant)
SubstitutePairValues(ps, vs) ==
    [i \in 1..Len(ps) |-> KeyValue(ps[i].name, SubstituteField(ps[i].value, vs))]

\* the name of each pair and then its value
SubstitutePairs(ps, vs) ==
    [i \in 1..Len(ps) |->
        KeyValue(SubstituteField(ps[i].name, vs), SubstituteField(ps[i].value, vs))]

\* a JSON body made a text body (faulty variant)
SubstituteBodyAsText(b, vs) ==
    CASE b.type \in {"text", "json"} -> TextBody(SubstituteField(b.text, vs))
      [] b.type = "urlencoded" -> UrlEncodedBody(SubstitutePairs(b.params, vs))
      [] OTHER -> b

\* the match on def.body of substitute_all
SubstituteBody(b, vs) ==
    CASE b.type = "text" -> TextBody(SubstituteField(b.text, vs))
      [] b.type = "json" -> JsonBody(SubstituteField(b.text, vs))
      [] b.type = "urlencoded" -> UrlEncodedBody(SubstitutePairs(b.params, vs))
      [] OTHER -> b

\* substitute_all(def, vars): URL, query parameters, headers, body
substitute_all(d, vs) ==
    [d EXCEPT !.url = SubstituteField(d.url, vs),
              !.query = IF d.query.some THEN Some(SubstitutePairs(d.query.v, vs)) ELSE d.query,
              !.headers = IF d.headers.some THEN Some(SubstitutePairs(d.headers.v, vs)) ELSE d.headers,
              !.body = SubstituteBody(d.body, vs)]

----------------------------------------------------------------------------
(* Inputs of the templating functions *)

Pieces == {<<"a">>, <<"b">>, <<OB>>, <<CB>>, <<OB, "a", CB>>, <<OB, "b", CB>>}

RECURSIVE Flatten(_)
Flatten(ps) == IF ps = <<>> THEN <<>> ELSE Head(ps) \o Flatten(Tail(ps))

\* the texts substitute is called on
Texts == {Flatten(ps) : ps \in UNION {[1..k -> Pieces] : k \in 0..MaxPieces}}

VarNames == {<<"a">>, <<"b">>}

\* values: empty, plain, holding a token of either name
Values == {<<>>, <<"a">>, <<"b">>, <<OB, "a", CB>>, <<OB, "b", CB>>}

\* a variable set: a slice of KeyValue whose names are pairwise different, in
\* any order (Environment::new rejects duplicates, the merge of bindings in
\* run replaces, list_unbound_variables dedups the prompted names)
VarListsOver(vals) ==
    {<<>>}
    \cup {<<KeyValue(n, v)>> : n \in VarNames, v \in vals}
    \cup {<<KeyValue(n, v), KeyValue(m, w)>> :
            <<n, m>> \in {p \in VarNames \X VarNames : p[1] # p[2]}, <<v, w>> \in vals \X vals}

VarLists == VarListsOver(Values)

InitSubstitute ==
    /\ base \in Texts
    /\ variables \in VarLists
    /\ output = <<>>
    /\ is_owned = FALSE
    /\ spc = "call"

IdleSubstitute ==
    /\ base = <<>>
    /\ variables = <<>>
    /\ output = <<>>
    /\ is_owned = FALSE
    /\ spc = "idle"

\* one call of substitute(base, variables)
Substitute ==
    /\ spc = "call"
    /\ output' = substitute(base, variables).text
    /\ is_owned' = substitute(base, variables).changed
    /\ spc' = "returned"
    /\ UNCHANGED <<base, variables>>

\* text without any brace
Plain == <<"c">>

\* field texts with placeholders: one token, and a token inside braces
DefTexts == {<<OB, "a", CB>>, <<OB, "b", CB>>, <<OB, OB, "b", CB, CB>>}

DefValues == {<<"c">>, <<"a">>, <<OB, "a", CB>>}

DefVarLists == VarListsOver(DefValues)

AllSlots == {"url", "h1n", "h1v", "h2n", "h2v", "q1n", "q1v", "btext", "b1n", "b1v"}

\* the text fields of a definition with hc headers, qc query parameters and
\* a body of type bt
SlotsOf(hc, qc, bt) ==
    {"url"}
    \cup (IF hc >= 1 THEN {"h1n", "h1v"} ELSE {})
    \cup (IF hc >= 2 THEN {"h2n", "h2v"} ELSE {})
    \cup (IF qc >= 1 THEN {"q1n", "q1v"} ELSE {})
    \cup (IF bt \in {"text", "json"} THEN {"btext"} ELSE {})
    \cup (IF bt = "urlencoded" THEN {"b1n", "b1v"} ELSE {})

\* RequestDefinition (request_definition.rs); hc = 0 and qc = 0 stand for an
\* absent [headers] and [query] section
MkDef(hc, qc, bt, f) ==
    [metadata |-> Some(<<"c">>),
     method |-> "GET",
     url |-> f["url"],
     query |-> IF qc = 0 THEN None ELSE Some(<<KeyValue(f["q1n"], f["q1v"])>>),
     headers |-> CASE hc = 0 -> None
                   [] hc = 1 -> Some(<<KeyValue(f["h1n"], f["h1v"])>>)
                   [] OTHER -> Some(<<KeyValue(f["h1n"], f["h1v"]), KeyValue(f["h2n"], f["h2v"])>>),
     body |-> CASE bt = "text" -> TextBody(f["btext"])
                [] bt = "json" -> JsonBody(f["btext"])
                [] bt = "urlencoded" -> UrlEncodedBody(<<KeyValue(f["b1n"], f["b1v"])>>)
                [] OTHER -> NoBody]

Fill(tok) == [s \in AllSlots |-> IF s \in DOMAIN tok THEN tok[s] ELSE Plain]

BodyTypes == {"none", "text", "json", "urlencoded"}

\* the request definitions of the model
Defs ==
    UNION {UNION {{MkDef(sh[1], sh[2], sh[3], Fill(tok)) : tok \in [T -> DefTexts]} :
                    T \in {S \in SUBSET SlotsOf(sh[1], sh[2], sh[3]) :
                             Cardinality(S) <= MaxTokenFields}} :
             sh \in (0..2) \X (0..1) \X BodyTypes}

NoDef == MkDef(0, 0, "none", Fill(<<>>))

InitTemplate ==
    /\ def \in Defs
    /\ def0 = def
    /\ vars \in DefVarLists
    /\ unbound_variables = <<>>
    /\ tpc = "loaded"

IdleTemplate ==
    /\ def = NoDef
    /\ def0 = NoDef
    /\ vars = <<>>
    /\ unbound_variables = <<>>
    /\ tpc = "idle"

\* templating::substitute_all(&mut def, &vars)
SubstituteAll ==
    /\ tpc = "loaded"
    /\ def' = substitute_all(def, vars)
    /\ tpc' = "substituted"
    /\ UNCHANGED <<def0, vars, unbound_variables>>

\* let unbound_variables = templating::list_unbound_variables(&def)
ListUnbound ==
    /\ tpc = "substituted"
    /\ unbound_variables' = list_unbound_variables(def)
    /\ tpc' = "listed"
    /\ UNCHANGED <<def, def0, vars>>

----------------------------------------------------------------------------
(* interactive.rs: interactive_mode, the shared catalog and the loader thread *)

\* Option<usize>, Option<PathBuf>
NoneIndex == [some |-> FALSE, v |-> 0]
SomeIndex(i) == [some |-> TRUE, v |-> i]

\* The definition files. A path is a number; the order of the numbers is the
\* order of the paths.
\* Choice::trimmed_path of the file
TrimmedPath(p) ==
    CASE p = 1 -> <<"a">>
      [] p = 2 -> <<"a", "b">>
      [] p = 3 -> <<"b">>
      [] OTHER -> <<"b", "a">>

\* RequestDefinition::new(path): what is on disk parses or does not
ParseFile(p) ==
    CASE p = 1 -> [ok |-> TRUE, url |-> <<"b">>, description |-> <<>>]
      [] p = 2 -> [ok |-> FALSE, url |-> <<>>, description |-> <<>>]
      [] p = 3 -> [ok |-> TRUE, url |-> <<OB, "a", CB>>, description |-> <<"a">>]
      [] OTHER -> [ok |-> TRUE, url |-> <<"a">>, description |-> <<"b">>]

\* files::load_file(path, RequestDefinition::new, ..): Ok(definition) or Err
load_file(p) == ParseFile(p)

\* Choice.request_definition: Option<anyhow::Result<RequestDefinition>>
NotLoaded == [some |-> FALSE, ok |-> FALSE, url |-> <<>>, description |-> <<>>]
Loaded(r) == [some |-> TRUE, ok |-> r.ok, url |-> r.url, description |-> r.description]

\* Choice::new(path, prefix_length)
Choice(p) == [path |-> p, request_definition |-> NotLoaded]

RECURSIVE InsertByPath(_, _)
InsertByPath(c, sorted) ==
    IF sorted = <<>> THEN <<c>>
    ELSE IF Head(sorted).path < c.path THEN <<Head(sorted)>> \o InsertByPath(c, Tail(sorted))
    ELSE <<c>> \o sorted

RECURSIVE SortByPath(_)
\* choices.sort(): Ord for Choice compares the paths
SortByPath(cs) == IF cs = <<>> THEN <<>> ELSE InsertByPath(Head(cs), SortByPath(Tail(cs)))

\* the choices in the order the directory walk gave them (faulty variant)
list_all_choices_unsorted(walk) == [i \in 1..Len(walk) |-> Choice(walk[i])]

\* files::list_all_choices(config): a Choice per .toml file the walk of the
\* directory found, sorted
list_all_choices(walk) == SortByPath([i \in 1..Len(walk) |-> Choice(walk[i])])

\* the orders in which WalkDir can give the files 1..n
WalkOrders(n) == {w \in [1..n -> 1..n] : \A i, j \in 1..n : w[i] = w[j] => i = j}

\* Environment files: [name, variables, path]
Env1 == [name |-> <<"a">>, variables |-> <<KeyValue(<<"a">>, <<"b">>)>>, path |-> 1]
Env2 == [name |-> <<"b">>, variables |-> <<KeyValue(<<"a">>, <<"a">>)>>, path |-> 2]

\* an environment file that binds a twice, and one whose variables are not
\* in the order of their names
Env3 == [name |-> <<"c">>,
         variables |-> <<KeyValue(<<"a">>, <<"b">>), KeyValue(<<"a">>, <<"a">>)>>, path |-> 3]
Env4 == [name |-> <<"a", "b">>,
         variables |-> <<KeyValue(<<"b">>, <<"c">>), KeyValue(<<"a">>, <<"b">>)>>, path |-> 4]

\* the duplicate check left out (faulty variant)
EnvironmentNewUnchecked(file) == [ok |-> TRUE, env |-> file]

\* Environment::new(path): the file read and parsed, then an error when a
\* name is bound more than once
EnvironmentNew(file) ==
    LET dupes == {n \in {file.variables[i].name : i \in 1..Len(file.variables)} :
                    Cardinality({i \in 1..Len(file.variables) : file.variables[i].name = n}) > 1}
    IN  [ok |-> dupes = {}, env |-> file]

\* files::list_all_environments(config): the environments of the files that
\* Environment::new accepts; the error of the others is printed on stderr
list_all_environments(files) == SelectSeq(files, LAMBDA f : EnvironmentNew(f).ok)

\* what list_all_environments prints on stderr: the paths of the files refused
list_all_environments_stderr(files) ==
    {files[i].path : i \in {k \in 1..Len(files) : ~EnvironmentNew(files[k]).ok}}

\* the environment directories of the model, as the walk gives their files
EnvironmentDirectories ==
    {<<>>, <<Env1>>, <<Env1, Env2>>, <<Env3>>, <<Env1, Env3>>, <<Env1, Env3, Env2>>}

\* files::list_all_environments(config), for the environment directories of the model
EnvironmentLists == {list_all_environments(d) : d \in EnvironmentDirectories}

\* the --environment argument: absent, the path of Env2, a path that is no
\* loaded environment's
EnvPaths == {NoneIndex, SomeIndex(2), SomeIndex(3)}

\* the first environment whenever a path is given (faulty variant)
PreselectedEnvFirst(envs, ep) ==
    IF ep.some /\ envs # <<>> THEN SomeIndex(0) ELSE NoneIndex

\* the for loop over environments.iter().enumerate(): the last match wins
PreselectedEnv(envs, ep) ==
    IF ep.some /\ \E i \in 1..Len(envs) : envs[i].path = ep.v
    THEN SomeIndex((CHOOSE i \in 1..Len(envs) :
                        /\ envs[i].path = ep.v
                        /\ \A j \in 1..Len(envs) : envs[j].path = ep.v => j <= i) - 1)
    ELSE NoneIndex

\* RwLock: read() is granted while no writer holds the lock
ReadGrantable == ~rw_writer

\* a write() granted whatever the readers (faulty variant)
WriteGrantableIgnoringReaders == ~rw_writer

\* RwLock: write() is granted while nobody holds the lock
WriteGrantable == ~rw_writer /\ rw_readers = 0

\* writer[0].request_definition = Some(..) (faulty variant)
StoreFirst(choices, i, r) == [choices EXCEPT ![1].request_definition = Loaded(r)]

\* writer[i].request_definition = Some(request_definition)
Store(choices, i, r) == [choices EXCEPT ![i].request_definition = Loaded(r)]

\* the loop left at the first file that does not parse (faulty variant)
LoaderNextStopOnError(i, n, r) == IF i + 1 > n \/ ~r.ok THEN "done" ELSE "lock"

\* for i in 0..num_choices: after the store for entry i (1-based here) the
\* loop goes on to entry i + 1 whatever load_file returned, and ends after
\* the last entry
LoaderNext(i, n, r) == IF i + 1 > n THEN "done" ELSE "lock"

\* let mut writer = write_access.write().unwrap()
LoaderAcquire ==
    /\ lpc = "lock"
    /\ WriteGrantable
    /\ rw_writer' = TRUE
    /\ lpc' = "load"
    /\ UNCHANGED <<all_choices, rw_readers, loader_i>>

\* files::load_file(&writer[i].path, ..): reading and parsing the file, the
\* write guard held
LoaderLoad ==
    /\ lpc = "load"
    /\ lpc' = "store"
    /\ UNCHANGED <<all_choices, rw_readers, rw_writer, loader_i>>

\* the guard kept for the next entry (faulty variant)
LoaderStoreKeepingGuard ==
    /\ lpc = "store"
    /\ all_choices' = Store(all_choices, loader_i, load_file(all_choices[loader_i].path))
    /\ rw_writer' = (loader_i + 1 <= Len(all_choices))
    /\ loader_i' = loader_i + 1
    /\ lpc' = IF loader_i + 1 > Len(all_choices) THEN "done" ELSE "load"
    /\ UNCHANGED rw_readers

\* the store into the Choice; the guard is dropped at the end of the loop body;
\* the loop ends after num_choices entries
LoaderStore ==
    /\ lpc = "store"
    /\ all_choices' = Store(all_choices, loader_i, load_file(all_choices[loader_i].path))
    /\ rw_writer' = FALSE
    /\ loader_i' = loader_i + 1
    /\ lpc' = LoaderNext(loader_i, Len(all_choices), load_file(all_choices[loader_i].path))
    /\ UNCHANGED rw_readers

uiVars == <<query, selected, primed, active_env_index, environments, env_path,
            filtered_choices, screen, upc, picker_result, picker_ctrl_c, pick_rpc>>
loaderVars == <<loader_i, lpc>>

RECURSIVE CutLoop(_, _)
CutLoop(s, cut_a_letter) ==
    IF s = <<>> THEN s
    ELSE LET popped == s[Len(s)]
             rest == SubSeq(s, 1, Len(s) - 1)
         IN  IF popped = " "
             THEN IF cut_a_letter THEN s ELSE CutLoop(rest, cut_a_letter)
             ELSE CutLoop(rest, TRUE)

\* the loop started as if a letter had been cut already (faulty variant)
cut_to_previous_space(s) == CutLoop(s, TRUE)

\* cut_to_current_word_start(s), like readline's Ctrl-W
cut_to_current_word_start(s) == CutLoop(s, FALSE)

\* String::pop
Pop(s) == IF s = <<>> THEN s ELSE SubSeq(s, 1, Len(s) - 1)

\* the characters a Key::Char(c) of the model carries
QueryChars == {"a", "b", " "}

\* Choice::url_or_blank(variables)
url_or_blank(choice, active_vars) ==
    IF choice.request_definition.some /\ choice.request_definition.ok
    THEN IF active_vars.some
         THEN substitute(choice.request_definition.url, active_vars.v).text
         ELSE choice.request_definition.url
    ELSE <<>>

\* Choice::description_or_blank()
description_or_blank(choice) ==
    IF choice.request_definition.some /\ choice.request_definition.ok
    THEN choice.request_definition.description
    ELSE <<>>

\* format!("{}{}{}", trimmed_path, url_or_blank, description_or_blank)
SearchTarget(choice, active_vars) ==
    TrimmedPath(choice.path) \o url_or_blank(choice, active_vars) \o description_or_blank(choice)

\* the ways the characters of q occur, in order, in t
Embeddings(q, t) ==
    {e \in [1..Len(q) -> 1..Len(t)] :
        /\ \A i \in 1..Len(q) : t[e[i]] = q[i]
        /\ \A i \in 1..(Len(q) - 1) : e[i] < e[i + 1]}

\* the score of one way: adjacent matches count for it, a late start against it
ScoreOf(e) ==
    2 * Cardinality({i \in 1..(Len(e) - 1) : e[i + 1] = e[i] + 1}) - (e[1] - 1)

Max(S) == CHOOSE x \in S : \A y \in S : y <= x

\* sublime_fuzzy::best_match(query, target): None when the characters of the
\* query do not occur in order in the target, else the best score
best_match(q, t) ==
    IF Embeddings(q, t) = {} THEN NoneIndex
    ELSE SomeIndex(Max({ScoreOf(e) : e \in Embeddings(q, t)}))

\* the active environment's variables, for the prompt and the search target
ActiveVars(envs, idx) == IF idx.some THEN Some(envs[idx.v + 1].variables) ELSE None

\* no choice filtered out (faulty variant)
MatchingEverything(choices, q, active_vars) == 1..Len(choices)

\* the positions (1-based) in the catalog of the choices the query matches
Matching(choices, q, active_vars) ==
    {i \in 1..Len(choices) : best_match(q, SearchTarget(choices[i], active_vars)).some}

\* sort_unstable_by(score descending): every order of the matching choices in
\* which the scores do not increase (the order of equal scores is not fixed)
SortedViews(choices, q, active_vars) ==
    LET M == Matching(choices, q, active_vars)
        score(i) == best_match(q, SearchTarget(choices[i], active_vars)).v
    IN  {f \in [1..Cardinality(M) -> M] :
            /\ \A i, j \in 1..Cardinality(M) : f[i] = f[j] => i = j
            /\ \A i \in 1..(Cardinality(M) - 1) : score(f[i]) >= score(f[i + 1])}

\* with an empty query only the choices parsed so far (faulty variant)
FilteredViewsParsedOnly(choices, q, active_vars) ==
    IF q = <<>>
    THEN {SelectSeq([i \in 1..Len(choices) |-> i],
                    LAMBDA i : choices[i].request_definition.some)}
    ELSE SortedViews(choices, q, active_vars)

\* filtered_choices: the whole catalog in its order for an empty query, else
\* the matching choices by score
FilteredViews(choices, q, active_vars) ==
    IF q = <<>> THEN {[i \in 1..Len(choices) |-> i]}
    ELSE SortedViews(choices, q, active_vars)

\* the selection left as it is (faulty variant)
ReconcileSelectionUnclamped(sel, n) ==
    IF n = 0 THEN NoneIndex
    ELSE IF ~sel.some THEN SomeIndex(0)
    ELSE sel

\* the if / else if chain after filtering: nothing to select, or the best
\* result selected when nothing was, or the selection kept inside the list
ReconcileSelection(sel, n) ==
    IF n = 0 THEN NoneIndex
    ELSE IF ~sel.some THEN SomeIndex(0)
    ELSE IF sel.v >= n THEN SomeIndex(n - 1)
    ELSE sel

Pending == [kind |-> "pending", path |-> 0, env |-> NoneIndex]

\* the state interactive_mode is in when its loop starts: the catalog listed
\* and sorted, nothing parsed, the first choice selected, the loader thread
\* spawned, the environments loaded and the --environment one made active
InitPicker ==
    /\ \E n \in 0..MaxChoices : \E walk \in WalkOrders(n) :
          all_choices = list_all_choices(walk)
    /\ rw_readers = 0
    /\ rw_writer = FALSE
    /\ loader_i = 1
    /\ lpc = IF Len(all_choices) = 0 THEN "done" ELSE "lock"
    /\ query = <<>>
    /\ selected = IF Len(all_choices) > 0 THEN SomeIndex(0) ELSE NoneIndex
    /\ primed = NoneIndex
    /\ environments \in EnvironmentLists
    /\ env_path \in EnvPaths
    /\ active_env_index = PreselectedEnv(environments, env_path)
    /\ filtered_choices = <<>>
    /\ screen = [drawn |-> FALSE, row |-> NoneIndex, highlighted |-> NoneIndex, env |-> NoneIndex]
    /\ upc = "top"
    /\ picker_result = Pending
    /\ picker_ctrl_c = FALSE
    /\ pick_rpc = "interactive"

IdlePicker ==
    /\ all_choices = <<>>
    /\ rw_readers = 0
    /\ rw_writer = FALSE
    /\ loader_i = 1
    /\ lpc = "idle"
    /\ query = <<>>
    /\ selected = NoneIndex
    /\ primed = NoneIndex
    /\ environments = <<>>
    /\ env_path = NoneIndex
    /\ active_env_index = NoneIndex
    /\ filtered_choices = <<>>
    /\ screen = [drawn |-> FALSE, row |-> NoneIndex, highlighted |-> NoneIndex, env |-> NoneIndex]
    /\ upc = "idle"
    /\ picker_result = Pending
    /\ picker_ctrl_c = FALSE
    /\ pick_rpc = "idle"

\* let inner_guard = inner_guard.read().unwrap()
UiAcquire ==
    /\ upc = "top"
    /\ ReadGrantable
    /\ rw_readers' = rw_readers + 1
    /\ upc' = "filter"
    /\ UNCHANGED <<all_choices, rw_writer, loaderVars, query, selected, primed,
                   active_env_index, environments, env_path, filtered_choices, screen,
                   picker_result, picker_ctrl_c, pick_rpc>>

\* the filtering of the catalog by the query and the reconciliation of the
\* selection with the filtered list
UiFilter ==
    /\ upc = "filter"
    /\ filtered_choices' \in
          FilteredViews(all_choices, query, ActiveVars(environments, active_env_index))
    /\ selected' = ReconcileSelection(selected, Len(filtered_choices'))
    /\ upc' = "draw"
    /\ UNCHANGED <<all_choices, rw_readers, rw_writer, loaderVars, query, primed,
                   active_env_index, environments, env_path, screen, picker_result,
                   picker_ctrl_c, pick_rpc>>

\* terminal.draw(..): the list with its highlighted row, and the prompt
UiDraw ==
    /\ upc = "draw"
    /\ screen' = [drawn |-> TRUE,
                  row |-> selected,
                  highlighted |->
                      IF selected.some /\ selected.v < Len(filtered_choices)
                      THEN SomeIndex(all_choices[filtered_choices[selected.v + 1]].path)
                      ELSE NoneIndex,
                  env |-> active_env_index]
    /\ upc' = "input"
    /\ UNCHANGED <<all_choices, rw_readers, rw_writer, loaderVars, query, selected, primed,
                   active_env_index, environments, env_path, filtered_choices,
                   picker_result, picker_ctrl_c, pick_rpc>>

\* the end of one iteration of the loop: inner_guard is dropped; after a
\* break the loop is left
EndIteration(brk) ==
    /\ rw_readers' = rw_readers - 1
    /\ upc' = IF brk THEN "after" ELSE "top"
    /\ UNCHANGED <<all_choices, rw_writer, loaderVars, environments, env_path,
                   filtered_choices, screen, picker_result, pick_rpc>>

\* Key::Ctrl('c') => break
KeyCtrlC ==
    /\ upc = "input"
    /\ picker_ctrl_c' = TRUE
    /\ UNCHANGED <<query, selected, primed, active_env_index>>
    /\ EndIteration(TRUE)

\* Key::Ctrl('w') => cut_to_current_word_start(&mut app_state.query)
KeyCtrlW ==
    /\ upc = "input"
    /\ query' = cut_to_current_word_start(query)
    /\ UNCHANGED <<selected, primed, active_env_index, picker_ctrl_c>>
    /\ EndIteration(FALSE)

\* Key::Ctrl('u') => app_state.query.clear()
KeyCtrlU ==
    /\ upc = "input"
    /\ query' = <<>>
    /\ UNCHANGED <<selected, primed, active_env_index, picker_ctrl_c>>
    /\ EndIteration(FALSE)

\* Up from the last row goes to row 0 (faulty variant)
KeyUpWrapping ==
    /\ upc = "input"
    /\ selected' = IF ~selected.some THEN selected
                   ELSE IF selected.v < Len(filtered_choices) - 1
                   THEN SomeIndex(selected.v + 1)
                   ELSE SomeIndex(0)
    /\ UNCHANGED <<query, primed, active_env_index, picker_ctrl_c>>
    /\ EndIteration(FALSE)

\* Key::Ctrl('p') | Key::Up: the selection index grows, up to the last row
KeyUp ==
    /\ upc = "input"
    /\ selected' = IF selected.some /\ selected.v < Len(filtered_choices) - 1
                   THEN SomeIndex(selected.v + 1)
                   ELSE selected
    /\ UNCHANGED <<query, primed, active_env_index, picker_ctrl_c>>
    /\ EndIteration(FALSE)

\* Key::Ctrl('n') | Key::Down: the selection index shrinks, down to 0
KeyDown ==
    /\ upc = "input"
    /\ selected' = IF selected.some /\ selected.v > 0
                   THEN SomeIndex(selected.v - 1)
                   ELSE selected
    /\ UNCHANGED <<query, primed, active_env_index, picker_ctrl_c>>
    /\ EndIteration(FALSE)

\* Enter primes the first row of the view (faulty variant)
KeyEnterFirstRow ==
    /\ upc = "input"
    /\ primed' = IF selected.some
                 THEN IF filtered_choices # <<>>
                      THEN SomeIndex(all_choices[filtered_choices[1]].path)
                      ELSE NoneIndex
                 ELSE primed
    /\ UNCHANGED <<query, selected, active_env_index, picker_ctrl_c>>
    /\ EndIteration(selected.some)

\* Key::Char('\n'): with a selection, primed = filtered_choices.get(i).map(path)
\* and break; without one, nothing
KeyEnter ==
    /\ upc = "input"
    /\ primed' = IF selected.some
                 THEN IF selected.v < Len(filtered_choices)
                      THEN SomeIndex(all_choices[filtered_choices[selected.v + 1]].path)
                      ELSE NoneIndex
                 ELSE primed
    /\ UNCHANGED <<query, selected, active_env_index, picker_ctrl_c>>
    /\ EndIteration(selected.some)

\* Key::Backspace => app_state.query.pop()
KeyBackspace ==
    /\ upc = "input"
    /\ query' = Pop(query)
    /\ UNCHANGED <<selected, primed, active_env_index, picker_ctrl_c>>
    /\ EndIteration(FALSE)

\* Tab from the last environment goes to the first (faulty variant)
KeyTabSkippingNone ==
    /\ upc = "input"
    /\ active_env_index' =
          IF environments = <<>> THEN active_env_index
          ELSE IF ~active_env_index.some THEN SomeIndex(0)
          ELSE IF active_env_index.v < Len(environments) - 1
               THEN SomeIndex(active_env_index.v + 1)
               ELSE SomeIndex(0)
    /\ UNCHANGED <<query, selected, primed, picker_ctrl_c>>
    /\ EndIteration(FALSE)

\* Key::Char('\t'): the next environment; after the last one, none
KeyTab ==
    /\ upc = "input"
    /\ active_env_index' =
          IF ~active_env_index.some
          THEN IF environments # <<>> THEN SomeIndex(0) ELSE active_env_index
          ELSE IF active_env_index.v < Len(environments) - 1
               THEN SomeIndex(active_env_index.v + 1)
               ELSE NoneIndex
    /\ UNCHANGED <<query, selected, primed, picker_ctrl_c>>
    /\ EndIteration(FALSE)

\* Key::BackTab: the previous environment; before the first one, none
KeyBackTab ==
    /\ upc = "input"
    /\ active_env_index' =
          IF ~active_env_index.some
          THEN IF environments # <<>> THEN SomeIndex(Len(environments) - 1)
               ELSE active_env_index
          ELSE IF active_env_index.v > 0
               THEN SomeIndex(active_env_index.v - 1)
               ELSE NoneIndex
    /\ UNCHANGED <<query, selected, primed, picker_ctrl_c>>
    /\ EndIteration(FALSE)

\* Key::Char(c) => app_state.query.push(c)
KeyChar ==
    /\ upc = "input"
    /\ Len(query) < MaxQueryLen
    /\ \E c \in QueryChars : query' = Append(query, c)
    /\ UNCHANGED <<selected, primed, active_env_index, picker_ctrl_c>>
    /\ EndIteration(FALSE)

\* stdin.next() gives None, an error or a key of the `_` arm: nothing is done
KeyNone ==
    /\ upc = "input"
    /\ UNCHANGED <<query, selected, primed, active_env_index, picker_ctrl_c>>
    /\ EndIteration(FALSE)

\* the result the loader stored for the path, an entry not parsed yet
\* counting as a failure (faulty variant)
StoredResult(choices, p) ==
    LET i == CHOOSE k \in 1..Len(choices) : choices[k].path = p
    IN  [ok |-> choices[i].request_definition.some /\ choices[i].request_definition.ok,
         url |-> choices[i].request_definition.url,
         description |-> choices[i].request_definition.description]

\* files::load_file(&path, RequestDefinition::new, ..)? after the loop: the
\* primed path is read and parsed again, the catalog is not looked at
ReloadPrimed(choices, p) == load_file(p)

\* after the loop: None without a primed path; else the primed file is loaded
\* again (an error is returned) and the active environment taken out of the list
UiReturn ==
    /\ upc = "after"
    /\ picker_result' =
          IF ~primed.some THEN [kind |-> "none", path |-> 0, env |-> NoneIndex]
          ELSE IF ~ReloadPrimed(all_choices, primed.v).ok
               THEN [kind |-> "error", path |-> primed.v, env |-> NoneIndex]
          ELSE [kind |-> "selected", path |-> primed.v,
                env |-> IF active_env_index.some
                        THEN SomeIndex(environments[active_env_index.v + 1].path)
                        ELSE NoneIndex]
    /\ upc' = "returned"
    /\ UNCHANGED <<all_choices, rw_readers, rw_writer, loaderVars, query, selected, primed,
                   active_env_index, environments, env_path, filtered_choices, screen,
                   picker_ctrl_c, pick_rpc>>

\* run goes on whatever interactive_mode returned (faulty variant)
RunOnSelectionAlways(res) == "selected"

\* run on the value of interactive_mode: `?` returns its error, `result?`
\* and `if let Some(SelectedValues { .. }) = result` go on to the variables
\* with a selection and to the end of run, Ok(()), with None
RunOnSelection(res) ==
    CASE res.kind = "error" -> "failed"
      [] res.kind = "none" -> "ended"
      [] OTHER -> "selected"

\* run after interactive_mode has returned
RunAfterInteractive ==
    /\ pick_rpc = "interactive"
    /\ upc = "returned"
    /\ pick_rpc' = RunOnSelection(picker_result)
    /\ UNCHANGED <<all_choices, rw_readers, rw_writer, loaderVars, query, selected, primed,
                   active_env_index, environments, env_path, filtered_choices, screen, upc,
                   picker_result, picker_ctrl_c>>

----------------------------------------------------------------------------
(* interactive.rs: prompt_for_variables, and run's use of it *)

\* HistoryItem
HistoryItem(n, v, e) == [name |-> n, value |-> v, env_name |-> e]

\* run's env_name: the environment's name, or "<none>" without one
EnvNames == {"dev", "<none>"}

\* the records a history file of the model can hold
HistoryItems ==
    {HistoryItem(n, v, e) : n \in VarNames, v \in {<<"a">>, <<"a", "b">>}, e \in EnvNames}

\* the history files of the model: at most MaxLog records, no record twice
HistoryLogs ==
    {l \in UNION {[1..k -> HistoryItems] : k \in 0..MaxLog} :
        \A i, j \in 1..Len(l) : l[i] = l[j] => i = j}

\* config.max_history_items.unwrap_or(1000)
DefaultMaxHistoryItems == 1000
MaxOf(opt) == IF opt.some THEN opt.v ELSE DefaultMaxHistoryItems

\* Config.max_history_items: Option<u64>
MaxHistorySettings == {NoneIndex} \cup {SomeIndex(n) : n \in 0..MaxLog}

\* the definitions run prompts for: one unbound name, two unbound names
RunDefs ==
    {MkDef(0, 0, "none", Fill("url" :> <<OB, "a", CB>>)),
     MkDef(0, 0, "text", Fill("url" :> <<OB, "b", CB>> @@ "btext" :> <<OB, "a", CB>>))}

\* the characters a Key::Char(c) of the prompt carries
PromptChars == {"a", "b"}

\* the elements of a set of numbers as an ascending sequence
Ascending(S) ==
    CHOOSE f \in [1..Cardinality(S) -> S] : \A i \in 1..(Cardinality(S) - 1) : f[i] < f[i + 1]

\* the items recorded for this name in any environment (faulty variant)
ForNameInAnyEnv(fh, name, env) == {i \in 1..Len(fh) : fh[i].name = name}

\* the first filter: the positions in full_history of the items recorded
\* for this name and this environment, in the order of the history
ForNameAndEnv(fh, name, env) ==
    {i \in 1..Len(fh) : fh[i].name = name /\ fh[i].env_name = env}

\* filtered_history_items of one frame: with an empty query the items of the
\* first filter; else those whose value the query matches, by score
\* (sort_unstable_by: the order of equal scores is not fixed)
HistoryViews(fh, name, env, q) ==
    LET S == ForNameAndEnv(fh, name, env)
        M == {i \in S : best_match(q, fh[i].value).some}
        score(i) == best_match(q, fh[i].value).v
    IN  IF q = <<>> THEN {Ascending(S)}
        ELSE {f \in [1..Cardinality(M) -> M] :
                /\ \A i, j \in 1..Cardinality(M) : f[i] = f[j] => i = j
                /\ \A i \in 1..(Cardinality(M) - 1) : score(f[i]) >= score(f[i + 1])}

NoReturn == [kind |-> "pending", v |-> <<>>]

\* the state prompt_for_variables is in when its loop starts, called by run
\* with the unbound names of the definition (not empty), the environment's
\* name and the history file read into full_history
InitPrompt ==
    /\ run_def \in RunDefs
    /\ names = list_unbound_variables(run_def)
    /\ env_name \in EnvNames
    /\ max_history_items \in MaxHistorySettings
    /\ history_file \in HistoryLogs
    /\ writer_buf = <<>>
    /\ full_history = history_file
    /\ created_items = <<>>
    /\ prompt_query = <<>>
    /\ active_history_item_index = NoneIndex
    /\ current_name_index = 0
    /\ result = <<>>
    /\ filtered_history_items = <<>>
    /\ prompt_screen = [drawn |-> FALSE, name |-> <<>>, row |-> NoneIndex]
    /\ ppc = "frame"
    /\ prompt_ret = NoReturn
    /\ ctrl_c = FALSE
    /\ sent = FALSE
    /\ rpc = "prompting"

IdlePrompt ==
    /\ run_def = NoDef
    /\ names = <<>>
    /\ env_name = "<none>"
    /\ max_history_items = NoneIndex
    /\ history_file = <<>>
    /\ writer_buf = <<>>
    /\ full_history = <<>>
    /\ created_items = <<>>
    /\ prompt_query = <<>>
    /\ active_history_item_index = NoneIndex
    /\ current_name_index = 0
    /\ result = <<>>
    /\ filtered_history_items = <<>>
    /\ prompt_screen = [drawn |-> FALSE, name |-> <<>>, row |-> NoneIndex]
    /\ ppc = "idle"
    /\ prompt_ret = NoReturn
    /\ ctrl_c = FALSE
    /\ sent = FALSE
    /\ rpc = "idle"

\* what a step of the prompt leaves alone: the arguments and run's state
PromptFrameVars == <<names, env_name, max_history_items, full_history, run_def, sent, rpc>>

\* the top of the loop up to stdin.next(): the history filtered for the
\* current name, environment and query, and the frame drawn
PromptFrame ==
    /\ ppc = "frame"
    /\ filtered_history_items' \in
          HistoryViews(full_history, names[current_name_index + 1], env_name, prompt_query)
    /\ prompt_screen' = [drawn |-> TRUE, name |-> names[current_name_index + 1],
                         row |-> active_history_item_index]
    /\ ppc' = "input"
    /\ UNCHANGED <<PromptFrameVars, history_file, writer_buf, created_items, prompt_query,
                   active_history_item_index, current_name_index, result, prompt_ret, ctrl_c>>

\* the end of one iteration of the prompt's loop
PromptEnd(brk) ==
    /\ ppc' = IF brk THEN "after" ELSE "frame"
    /\ UNCHANGED <<PromptFrameVars, filtered_history_items, prompt_screen, prompt_ret>>

\* a panic inside the loop: the stack unwinds, the csv writer is dropped and
\* flushes, nothing is returned
PromptPanic ==
    /\ prompt_ret' = [kind |-> "panic", v |-> <<>>]
    /\ history_file' = history_file \o writer_buf
    /\ writer_buf' = <<>>
    /\ ppc' = "returned"
    /\ UNCHANGED <<PromptFrameVars, created_items, prompt_query, active_history_item_index,
                   current_name_index, result, filtered_history_items, prompt_screen, ctrl_c>>

\* Key::Ctrl('c') => break
PromptCtrlC ==
    /\ ppc = "input"
    /\ ctrl_c' = TRUE
    /\ UNCHANGED <<history_file, writer_buf, created_items, prompt_query,
                   active_history_item_index, current_name_index, result>>
    /\ PromptEnd(TRUE)

\* Key::Ctrl('w') => cut_to_current_word_start(&mut state.query)
PromptCtrlW ==
    /\ ppc = "input"
    /\ prompt_query' = cut_to_current_word_start(prompt_query)
    /\ UNCHANGED <<history_file, writer_buf, created_items, active_history_item_index,
                   current_name_index, result, ctrl_c>>
    /\ PromptEnd(FALSE)

\* Key::Ctrl('u') => state.query.clear()
PromptCtrlU ==
    /\ ppc = "input"
    /\ prompt_query' = <<>>
    /\ UNCHANGED <<history_file, writer_buf, created_items, active_history_item_index,
                   current_name_index, result, ctrl_c>>
    /\ PromptEnd(FALSE)

\* into history mode whether or not there is an item (faulty variant)
PromptTabAlways ==
    /\ ppc = "input"
    /\ active_history_item_index' =
          IF active_history_item_index.some THEN NoneIndex ELSE SomeIndex(0)
    /\ UNCHANGED <<history_file, writer_buf, created_items, prompt_query,
                   current_name_index, result, ctrl_c>>
    /\ PromptEnd(FALSE)

\* Key::Char('\t') | Key::BackTab: out of history mode; or into it, on the
\* first item, when there is an item
PromptTab ==
    /\ ppc = "input"
    /\ active_history_item_index' =
          IF active_history_item_index.some THEN NoneIndex
          ELSE IF filtered_history_items # <<>> THEN SomeIndex(0)
          ELSE active_history_item_index
    /\ UNCHANGED <<history_file, writer_buf, created_items, prompt_query,
                   current_name_index, result, ctrl_c>>
    /\ PromptEnd(FALSE)

\* `i < filtered_history_items.len() - 1` on usize: with an empty list the
\* subtraction overflows, which panics in a build with overflow checks and
\* wraps to usize::MAX in one without
UpOutcomes(idx, n) ==
    IF ~idx.some THEN {[panic |-> FALSE, idx |-> idx]}
    ELSE IF n = 0
         THEN {[panic |-> TRUE, idx |-> idx]}
              \cup (IF idx.v < MaxIndex THEN {[panic |-> FALSE, idx |-> SomeIndex(idx.v + 1)]}
                    ELSE {})
    ELSE IF idx.v < n - 1 THEN {[panic |-> FALSE, idx |-> SomeIndex(idx.v + 1)]}
    ELSE {[panic |-> FALSE, idx |-> idx]}

\* Key::Ctrl('p') | Key::Up
PromptUp ==
    /\ ppc = "input"
    /\ \E o \in UpOutcomes(active_history_item_index, Len(filtered_history_items)) :
          IF o.panic THEN PromptPanic
          ELSE /\ active_history_item_index' = o.idx
               /\ UNCHANGED <<history_file, writer_buf, created_items, prompt_query,
                              current_name_index, result, ctrl_c>>
               /\ PromptEnd(FALSE)

\* Key::Ctrl('n') | Key::Down
PromptDown ==
    /\ ppc = "input"
    /\ active_history_item_index' =
          IF active_history_item_index.some /\ active_history_item_index.v > 0
          THEN SomeIndex(active_history_item_index.v - 1)
          ELSE active_history_item_index
    /\ UNCHANGED <<history_file, writer_buf, created_items, prompt_query,
                   current_name_index, result, ctrl_c>>
    /\ PromptEnd(FALSE)

\* nothing is ever found in the history (faulty variant)
HistoryContainsNothing(fh, item) == FALSE

\* full_history.contains(&new_item): the derived PartialEq of HistoryItem
\* compares name, value and env_name
HistoryContains(fh, item) == \E i \in 1..Len(fh) : fh[i] = item

\* every answer given the first name (faulty variant)
EnterAnswerFirstName ==
    LET name == names[1]
    IN  IF active_history_item_index.some
        THEN [given |-> TRUE, typed |-> FALSE,
              kv |-> KeyValue(name,
                        full_history[filtered_history_items[active_history_item_index.v + 1]].value)]
        ELSE IF prompt_query # <<>>
             THEN [given |-> TRUE, typed |-> TRUE, kv |-> KeyValue(name, prompt_query)]
        ELSE [given |-> FALSE, typed |-> FALSE, kv |-> KeyValue(name, <<>>)]

\* the query taken as the answer even when it is empty (faulty variant)
EnterAnswerEvenEmpty ==
    LET name == names[current_name_index + 1]
    IN  IF active_history_item_index.some
        THEN [given |-> TRUE, typed |-> FALSE,
              kv |-> KeyValue(name,
                        full_history[filtered_history_items[active_history_item_index.v + 1]].value)]
        ELSE [given |-> TRUE, typed |-> TRUE, kv |-> KeyValue(name, prompt_query)]

\* the answer, when Enter gives one, and whether it is a typed one:
\* the selected history item's value, else the query when it is not empty
EnterAnswer ==
    LET name == names[current_name_index + 1]
    IN  IF active_history_item_index.some
        THEN [given |-> TRUE, typed |-> FALSE,
              kv |-> KeyValue(name,
                        full_history[filtered_history_items[active_history_item_index.v + 1]].value)]
        ELSE IF prompt_query # <<>>
             THEN [given |-> TRUE, typed |-> TRUE, kv |-> KeyValue(name, prompt_query)]
        ELSE [given |-> FALSE, typed |-> FALSE, kv |-> KeyValue(name, <<>>)]

\* Key::Char('\n'): filtered_history_items[index] panics when the index is
\* not in the list; a typed answer that full_history does not contain yet is
\* written to the csv writer and kept in created_items; after an answer the
\* next name is prompted for, in query mode, and after the last one the loop
\* is left
PromptEnter ==
    /\ ppc = "input"
    /\ IF /\ active_history_item_index.some
          /\ active_history_item_index.v >= Len(filtered_history_items)
       THEN PromptPanic
       ELSE LET a == EnterAnswer
                new_item == HistoryItem(a.kv.name, a.kv.value, env_name)
                novel == a.typed /\ ~HistoryContains(full_history, new_item)
                pushed == IF a.given THEN Append(result, a.kv) ELSE result
                done == Len(pushed) = current_name_index + 1
            IN  /\ result' = pushed
                /\ writer_buf' = IF novel THEN Append(writer_buf, new_item) ELSE writer_buf
                /\ created_items' = IF novel THEN Append(created_items, new_item)
                                    ELSE created_items
                /\ current_name_index' = IF done THEN current_name_index + 1
                                         ELSE current_name_index
                /\ active_history_item_index' = IF done THEN NoneIndex
                                                ELSE active_history_item_index
                /\ prompt_query' = IF done THEN <<>> ELSE prompt_query
                /\ UNCHANGED <<history_file, ctrl_c>>
                /\ PromptEnd(done /\ current_name_index + 1 >= Len(names))

\* Key::Backspace => state.query.pop()
PromptBackspace ==
    /\ ppc = "input"
    /\ prompt_query' = Pop(prompt_query)
    /\ UNCHANGED <<history_file, writer_buf, created_items, active_history_item_index,
                   current_name_index, result, ctrl_c>>
    /\ PromptEnd(FALSE)

\* Key::Char(c) => state.query.push(c)
PromptChar ==
    /\ ppc = "input"
    /\ Len(prompt_query) < MaxQueryLen
    /\ \E c \in PromptChars : prompt_query' = Append(prompt_query, c)
    /\ UNCHANGED <<history_file, writer_buf, created_items, active_history_item_index,
                   current_name_index, result, ctrl_c>>
    /\ PromptEnd(FALSE)

\* stdin.next() gives None, an error or a key of the `_` arm
PromptNoKey ==
    /\ ppc = "input"
    /\ UNCHANGED <<history_file, writer_buf, created_items, prompt_query,
                   active_history_item_index, current_name_index, result, ctrl_c>>
    /\ PromptEnd(FALSE)

\* all_history: full_history with created_items appended
AllHistory == full_history \o created_items

\* the first n items kept (faulty variant)
FirstN(l, n) == IF Len(l) > n THEN SubSeq(l, 1, n) ELSE l

\* all_history.iter().skip(excess_items)
LastN(l, n) == IF Len(l) > n THEN SubSeq(l, Len(l) - n + 1, Len(l)) ELSE l

\* one answer per name (faulty variant: any answer at all)
ReturnOfAny(res, ns) == IF Len(res) > 0 THEN [kind |-> "some", v |-> res]
                        ELSE [kind |-> "none", v |-> <<>>]

\* if result.len() == names.len() { Ok(Some(result)) } else { Ok(None) }
ReturnOf(res, ns) == IF Len(res) = Len(ns) THEN [kind |-> "some", v |-> res]
                     ELSE [kind |-> "none", v |-> <<>>]

\* after the loop: the history file rewritten with its last max items when
\* it holds more (the csv writer dropped first, the file truncated, the tail
\* written), else the writer's buffer flushed when the function ends; the
\* answers returned when there is one per name, else None
PromptFinish ==
    /\ ppc = "after"
    /\ history_file' = IF Len(AllHistory) > MaxOf(max_history_items)
                       THEN LastN(AllHistory, MaxOf(max_history_items))
                       ELSE history_file \o writer_buf
    /\ writer_buf' = <<>>
    /\ prompt_ret' = ReturnOf(result, names)
    /\ ppc' = "returned"
    /\ UNCHANGED <<PromptFrameVars, created_items, prompt_query, active_history_item_index,
                   current_name_index, result, filtered_history_items, prompt_screen, ctrl_c>>

\* run after the prompt (faulty variant: the request sent whatever came back)
RunOutcomeAlways(ret) == "sent"

\* run after the prompt: `additional_vars?` propagates an error, Some(vars)
\* goes on to the request, None ends run without one; a panic ends the process
RunOutcome(ret) ==
    CASE ret.kind = "some" -> "sent"
      [] ret.kind = "none" -> "done"
      [] ret.kind = "error" -> "failed"
      [] OTHER -> "panicked"

\* let additional_vars = additional_vars?; if let Some(additional_vars) = .. {
\* substitute_all(&mut def, &additional_vars); http::send_request(def, ..) }
RunAfterPrompt ==
    /\ rpc = "prompting"
    /\ ppc = "returned"
    /\ rpc' = RunOutcome(prompt_ret)
    /\ sent' = (RunOutcome(prompt_ret) = "sent")
    /\ run_def' = IF RunOutcome(prompt_ret) = "sent" THEN substitute_all(run_def, prompt_ret.v)
                  ELSE run_def
    /\ UNCHANGED <<names, env_name, max_history_items, history_file, writer_buf, full_history,
                   created_items, prompt_query, active_history_item_index, current_name_index,
                   result, filtered_history_items, prompt_screen, ppc, prompt_ret, ctrl_c>>

----------------------------------------------------------------------------
(* bin/main.rs: run *)

\* RequestDefinition::new on the definition files of the model: the second
\* does not parse, the third has the placeholders {a} and {b}
DefinitionOnDisk(p) ==
    [ok |-> ParseFile(p).ok,
     def |-> IF p = 3
             THEN MkDef(0, 0, "text", Fill("url" :> ParseFile(p).url @@ "btext" :> <<OB, "b", CB>>))
             ELSE MkDef(0, 0, "none", Fill("url" :> ParseFile(p).url))]

\* the environment file a path names
EnvironmentFile(p) ==
    CASE p = 1 -> Env1
      [] p = 2 -> Env2
      [] p = 3 -> Env3
      [] OTHER -> Env4

\* --binding: absent, or the bindings in the order of the command line
BindingValues == {<<"c">>, <<"a">>}
Bindings ==
    {None}
    \cup {Some(<<KeyValue(n, v)>>) : n \in VarNames, v \in BindingValues}
    \cup {Some(<<KeyValue(n, v), KeyValue(m, w)>>) :
            n \in VarNames, m \in VarNames, v \in BindingValues, w \in BindingValues}

\* Ord for KeyValue (derived): by name, then by value
KeyValueLess(x, y) == StrLess(x.name, y.name) \/ (x.name = y.name /\ StrLess(x.value, y.value))

RECURSIVE InsertKeyValue(_, _)
InsertKeyValue(x, sorted) ==
    IF sorted = <<>> THEN <<x>>
    ELSE IF KeyValueLess(Head(sorted), x) THEN <<Head(sorted)>> \o InsertKeyValue(x, Tail(sorted))
    ELSE <<x>> \o sorted

RECURSIVE SortKeyValues(_)
\* vars.sort()
SortKeyValues(l) == IF l = <<>> THEN <<>> ELSE InsertKeyValue(Head(l), SortKeyValues(Tail(l)))

\* the binding put at the end of the variables (faulty variant)
MergeBindingAtEnd(vs, binding) == Append(vs, binding)

\* vars.binary_search_by(|item| item.name.cmp(&binding.name)) on variables
\* sorted by name: Ok(index) of the variable of that name, which the binding
\* replaces, or Err(index) of the place that keeps the order, where the
\* binding is inserted
MergeBinding(vs, binding) ==
    IF \E i \in 1..Len(vs) : vs[i].name = binding.name
    THEN LET index == CHOOSE i \in 1..Len(vs) : vs[i].name = binding.name
         IN  [vs EXCEPT ![index] = binding]
    ELSE LET index == Cardinality({i \in 1..Len(vs) : StrLess(vs[i].name, binding.name)})
         IN  SubSeq(vs, 1, index) \o <<binding>> \o SubSeq(vs, index + 1, Len(vs))

RECURSIVE MergeBindings(_, _)
\* for binding in bindings { .. }
MergeBindings(vs, bindings) ==
    IF bindings = <<>> THEN vs
    ELSE MergeBindings(MergeBinding(vs, Head(bindings)), Tail(bindings))

\* what interactive_mode can return to run (SpecPicker has how): None after
\* Ctrl-C, the error of a confirmed file that does not parse, or a confirmed
\* definition with the environment active then, one of those offered
InteractiveResults(n, envs) ==
    {[kind |-> "none", path |-> 0, env |-> None]}
    \cup {[kind |-> "error", path |-> p, env |-> None] : p \in {q \in 1..n : ~DefinitionOnDisk(q).ok}}
    \cup {[kind |-> "selected", path |-> p, env |-> e] :
            p \in {q \in 1..n : DefinitionOnDisk(q).ok},
            e \in {None} \cup {Some(envs[i]) : i \in 1..Len(envs)}}

\* what prompt_for_variables can return to run (SpecPrompt has how): None
\* after Ctrl-C, an answer per name, or no value when it panics
PromptResults(ns) ==
    {[kind |-> "none", v |-> <<>>], [kind |-> "panic", v |-> <<>>]}
    \cup {[kind |-> "some", v |-> [i \in 1..Len(ns) |-> KeyValue(ns[i], w)]] : w \in BindingValues}

NotInteractive == [shown |-> FALSE, environments |-> <<>>]

InitRun ==
    /\ args_file \in {NoneIndex} \cup {SomeIndex(p) : p \in 1..MaxChoices}
    /\ args_environment \in {NoneIndex} \cup {SomeIndex(p) : p \in 1..4}
    /\ args_binding \in Bindings
    /\ is_tty \in BOOLEAN
    /\ definition_files \in {0, MaxChoices}
    /\ environment_files \in EnvironmentDirectories
    /\ selected_env = None
    /\ terminal = FALSE
    /\ interactive = NotInteractive
    /\ stderr = {}
    /\ run_error = "none"
    /\ additional_vars = NoReturn
    /\ request = None
    /\ def = NoDef
    /\ def0 = NoDef
    /\ vars = <<>>
    /\ unbound_variables = <<>>
    /\ tpc = "args"

IdleRun ==
    /\ args_file = NoneIndex
    /\ args_environment = NoneIndex
    /\ args_binding = None
    /\ is_tty = FALSE
    /\ definition_files = 0
    /\ environment_files = <<>>
    /\ selected_env = None
    /\ terminal = FALSE
    /\ interactive = NotInteractive
    /\ stderr = {}
    /\ run_error = "none"
    /\ additional_vars = NoReturn
    /\ request = None

runArgs == <<args_file, args_environment, args_binding, is_tty, definition_files,
             environment_files>>

\* run ends with Err(..)
RunFails(e) ==
    /\ tpc' = "failed"
    /\ run_error' = e

\* --file given: the definition and the --environment file are loaded
RunLoadFiles ==
    /\ tpc = "args"
    /\ args_file.some
    /\ IF ~DefinitionOnDisk(args_file.v).ok
       THEN RunFails("Failed to parse request definition file") /\ UNCHANGED <<def, selected_env>>
       ELSE IF args_environment.some /\ ~EnvironmentNew(EnvironmentFile(args_environment.v)).ok
       THEN RunFails("contains duplicate bindings") /\ UNCHANGED <<def, selected_env>>
       ELSE /\ def' = DefinitionOnDisk(args_file.v).def
            /\ selected_env' = IF args_environment.some
                       THEN Some(EnvironmentNew(EnvironmentFile(args_environment.v)).env)
                       ELSE None
            /\ tpc' = "selected"
            /\ UNCHANGED run_error
    /\ UNCHANGED <<runArgs, terminal, interactive, stderr, additional_vars, request, def0, vars,
                   unbound_variables>>

\* no --file: an error when stdout is no terminal or no definition file
\* exists, else the terminal is set up and interactive_mode called; it loads
\* the environments, shows the picker and returns
RunInteractive ==
    /\ tpc = "args"
    /\ ~args_file.some
    /\ IF ~is_tty
       THEN /\ RunFails("Running in interactive mode requires a TTY")
            /\ UNCHANGED <<def, selected_env, terminal, interactive, stderr>>
       ELSE IF definition_files = 0
       THEN /\ RunFails("No TOML files found")
            /\ UNCHANGED <<def, selected_env, terminal, interactive, stderr>>
       ELSE /\ terminal' = TRUE
            /\ interactive' = [shown |-> TRUE,
                                environments |-> list_all_environments(environment_files)]
            /\ stderr' = list_all_environments_stderr(environment_files)
            /\ \E r \in InteractiveResults(definition_files, interactive'.environments) :
                  /\ tpc' = RunOnSelection(r)
                  /\ run_error' = IF r.kind = "error"
                                   THEN "Failed to parse request definition file" ELSE run_error
                  /\ def' = IF r.kind = "selected" THEN DefinitionOnDisk(r.path).def ELSE def
                  /\ selected_env' = r.env
    /\ UNCHANGED <<runArgs, additional_vars, request, def0, vars, unbound_variables>>

\* the environment's variables sorted, then each binding of the command line
\* put in place of the variable of its name or inserted
RunMerge ==
    /\ tpc = "selected"
    /\ vars' = MergeBindings(SortKeyValues(IF selected_env.some THEN selected_env.v.variables ELSE <<>>),
                             IF args_binding.some THEN args_binding.v ELSE <<>>)
    /\ def0' = def
    /\ tpc' = "loaded"
    /\ UNCHANGED <<runVars, def, unbound_variables>>

\* the prompt whatever stdout is (faulty variant)
AdditionalVarsOnAnyStdout ==
    IF unbound_variables # <<>> THEN PromptResults(unbound_variables)
    ELSE {[kind |-> "some", v |-> <<>>]}

\* with unbound variables: the prompt when stdout is a terminal (set up now
\* unless it was for the picker), else an error; without: Ok(Some(vec![]))
AdditionalVars ==
    IF unbound_variables # <<>>
    THEN IF is_tty THEN PromptResults(unbound_variables)
         ELSE {[kind |-> "error", v |-> <<>>]}
    ELSE {[kind |-> "some", v |-> <<>>]}

\* the rest of run: additional_vars, then the last substitution and the request
RunPromptAndSend ==
    /\ tpc = "listed"
    /\ run_error = "none"
    /\ additional_vars = NoReturn
    /\ additional_vars' \in AdditionalVars
    /\ terminal' = (terminal \/ (unbound_variables # <<>> /\ is_tty))
    /\ tpc' = RunOutcome(additional_vars')
    /\ run_error' = IF additional_vars'.kind = "error"
                     THEN "Running in interactive mode requires a TTY" ELSE run_error
    /\ def' = IF additional_vars'.kind = "some" THEN substitute_all(def, additional_vars'.v) ELSE def
    /\ request' = IF additional_vars'.kind = "some" THEN Some(def') ELSE None
    /\ UNCHANGED <<runArgs, selected_env, interactive, stderr, def0, vars, unbound_variables>>

----------------------------------------------------------------------------
(* Specifications *)

otherThanSubst == <<tmplVars, pickerVars, promptVars, runVars>>
otherThanTmpl == <<substVars, pickerVars, promptVars, runVars>>
otherThanPicker == <<substVars, tmplVars, promptVars, runVars>>
otherThanPrompt == <<substVars, tmplVars, pickerVars, runVars>>
otherThanRun == <<substVars, pickerVars, promptVars>>

InitSubstituteSpec == InitSubstitute /\ IdleTemplate /\ IdlePicker /\ IdlePrompt /\ IdleRun

NextSubstitute ==
    \/ Substitute /\ UNCHANGED otherThanSubst

\* calls of substitute on the texts and variable sets of the model
SpecSubstitute == InitSubstituteSpec /\ [][NextSubstitute]_allVars

InitTemplateSpec == InitTemplate /\ IdleSubstitute /\ IdlePicker /\ IdlePrompt /\ IdleRun

NextTemplate ==
    \/ SubstituteAll /\ UNCHANGED otherThanTmpl
    \/ ListUnbound /\ UNCHANGED otherThanTmpl

\* run's substitute_all followed by list_unbound_variables on one definition
SpecTemplate == InitTemplateSpec /\ [][NextTemplate]_allVars

InitPickerSpec == InitPicker /\ IdleSubstitute /\ IdleTemplate /\ IdlePrompt /\ IdleRun

NextPicker ==
    \/ LoaderAcquire /\ UNCHANGED <<uiVars, otherThanPicker>>
    \/ LoaderLoad /\ UNCHANGED <<uiVars, otherThanPicker>>
    \/ LoaderStore /\ UNCHANGED <<uiVars, otherThanPicker>>
    \/ UiAcquire /\ UNCHANGED otherThanPicker
    \/ UiFilter /\ UNCHANGED otherThanPicker
    \/ UiDraw /\ UNCHANGED otherThanPicker
    \/ KeyCtrlC /\ UNCHANGED otherThanPicker
    \/ KeyCtrlW /\ UNCHANGED otherThanPicker
    \/ KeyCtrlU /\ UNCHANGED otherThanPicker
    \/ KeyUp /\ UNCHANGED otherThanPicker
    \/ KeyDown /\ UNCHANGED otherThanPicker
    \/ KeyEnter /\ UNCHANGED otherThanPicker
    \/ KeyBackspace /\ UNCHANGED otherThanPicker
    \/ KeyTab /\ UNCHANGED otherThanPicker
    \/ KeyBackTab /\ UNCHANGED otherThanPicker
    \/ KeyChar /\ UNCHANGED otherThanPicker
    \/ KeyNone /\ UNCHANGED otherThanPicker
    \/ UiReturn /\ UNCHANGED otherThanPicker
    \/ RunAfterInteractive /\ UNCHANGED otherThanPicker

\* interactive_mode: the UI loop and the loader thread on the shared catalog
SpecPicker == InitPickerSpec /\ [][NextPicker]_allVars

\* a step of the UI thread inside a frame: stdin is termion's async_stdin
\* (main.rs 151), whose next() returns at once, with a key or without
UiStep ==
    \/ UiFilter \/ UiDraw
    \/ KeyCtrlC \/ KeyCtrlW \/ KeyCtrlU \/ KeyUp \/ KeyDown \/ KeyEnter
    \/ KeyBackspace \/ KeyTab \/ KeyBackTab \/ KeyChar \/ KeyNone

\* the scheduling of the two threads: the UI thread goes through its frames;
\* the loader thread runs when it can, and its write() is granted once the
\* lock is free: the UI drops its read guard at the end of every iteration
FairPicker ==
    /\ WF_allVars(UiStep /\ UNCHANGED otherThanPicker)
    /\ SF_allVars(LoaderAcquire /\ UNCHANGED <<uiVars, otherThanPicker>>)
    /\ WF_allVars(LoaderLoad /\ UNCHANGED <<uiVars, otherThanPicker>>)
    /\ WF_allVars(LoaderStore /\ UNCHANGED <<uiVars, otherThanPicker>>)

\* interactive_mode under fair scheduling of its two threads
SpecPickerFair == InitPickerSpec /\ [][NextPicker]_allVars /\ FairPicker

InitPromptSpec == InitPrompt /\ IdleSubstitute /\ IdleTemplate /\ IdlePicker /\ IdleRun

NextPrompt ==
    \/ PromptFrame /\ UNCHANGED otherThanPrompt
    \/ PromptCtrlC /\ UNCHANGED otherThanPrompt
    \/ PromptCtrlW /\ UNCHANGED otherThanPrompt
    \/ PromptCtrlU /\ UNCHANGED otherThanPrompt
    \/ PromptTab /\ UNCHANGED otherThanPrompt
    \/ PromptUp /\ UNCHANGED otherThanPrompt
    \/ PromptDown /\ UNCHANGED otherThanPrompt
    \/ PromptEnter /\ UNCHANGED otherThanPrompt
    \/ PromptBackspace /\ UNCHANGED otherThanPrompt
    \/ PromptChar /\ UNCHANGED otherThanPrompt
    \/ PromptNoKey /\ UNCHANGED otherThanPrompt
    \/ PromptFinish /\ UNCHANGED otherThanPrompt
    \/ RunAfterPrompt /\ UNCHANGED otherThanPrompt

\* run prompting for the unbound variables of a definition, then sending or not
SpecPrompt == InitPromptSpec /\ [][NextPrompt]_allVars

InitRunSpec == InitRun /\ IdleSubstitute /\ IdlePicker /\ IdlePrompt

NextRun ==
    \/ RunLoadFiles /\ UNCHANGED otherThanRun
    \/ RunInteractive /\ UNCHANGED otherThanRun
    \/ RunMerge /\ UNCHANGED otherThanRun
    \/ SubstituteAll /\ UNCHANGED <<runVars, otherThanRun>>
    \/ ListUnbound /\ UNCHANGED <<runVars, otherThanRun>>
    \/ RunPromptAndSend /\ UNCHANGED otherThanRun

\* run from its arguments to the request, the picker and the prompt taken by
\* what they return
SpecRun == InitRunSpec /\ [][NextRun]_allVars

\* the catalog with its first k entries parsed by the loader
AnnotatedUpTo(choices, k) ==
    [i \in 1..Len(choices) |-> IF i <= k THEN Store(choices, i, load_file(choices[i].path))[i]
                               ELSE choices[i]]

\* the queries the two filters are applied to: none, one that matches some
\* entries, one that matches fewer
FilterQueries == {<<>>, <<"a">>, <<"a", "b">>}

\* the picker at the filter of a frame: the read guard taken, the loader
\* waiting after k entries, a query typed
InitFilterPicker ==
    /\ \E n \in 0..MaxChoices : \E walk \in WalkOrders(n) : \E k \in 0..n :
          /\ all_choices = AnnotatedUpTo(list_all_choices(walk), k)
          /\ loader_i = k + 1
          /\ lpc = IF k = n THEN "done" ELSE "lock"
    /\ rw_readers = 1
    /\ rw_writer = FALSE
    /\ query \in FilterQueries
    /\ selected = IF Len(all_choices) > 0 THEN SomeIndex(0) ELSE NoneIndex
    /\ primed = NoneIndex
    /\ environments = <<>>
    /\ env_path = NoneIndex
    /\ active_env_index = NoneIndex
    /\ filtered_choices = <<>>
    /\ screen = [drawn |-> FALSE, row |-> NoneIndex, highlighted |-> NoneIndex, env |-> NoneIndex]
    /\ upc = "filter"
    /\ picker_result = Pending
    /\ picker_ctrl_c = FALSE
    /\ pick_rpc = "interactive"

\* the prompt at the top of a frame for its first name, a query typed
InitFilterPrompt ==
    /\ run_def \in RunDefs
    /\ names = list_unbound_variables(run_def)
    /\ env_name \in EnvNames
    /\ max_history_items = NoneIndex
    /\ history_file \in HistoryLogs
    /\ writer_buf = <<>>
    /\ full_history = history_file
    /\ created_items = <<>>
    /\ prompt_query \in FilterQueries
    /\ active_history_item_index = NoneIndex
    /\ current_name_index = 0
    /\ result = <<>>
    /\ filtered_history_items = <<>>
    /\ prompt_screen = [drawn |-> FALSE, name |-> <<>>, row |-> NoneIndex]
    /\ ppc = "frame"
    /\ prompt_ret = NoReturn
    /\ ctrl_c = FALSE
    /\ sent = FALSE
    /\ rpc = "prompting"

InitFilterSpec ==
    InitFilterPicker /\ InitFilterPrompt /\ IdleSubstitute /\ IdleTemplate /\ IdleRun

NextFilter ==
    \/ UiFilter /\ UNCHANGED otherThanPicker
    \/ PromptFrame /\ UNCHANGED otherThanPrompt

\* the filter of the picker's frame and the filter of the prompt's frame, each
\* applied once to a catalog, a history and a query of the model
SpecFilter == InitFilterSpec /\ [][NextFilter]_allVars

\* the queries Ctrl-W is applied to: up to MaxCutLen letters and spaces
MaxCutLen == 4

CutQueries == UNION {[1..k -> QueryChars] : k \in 0..MaxCutLen}

\* the picker reading a key, its catalog empty, a query typed
InitCut ==
    /\ all_choices = <<>>
    /\ rw_readers = 1
    /\ rw_writer = FALSE
    /\ loader_i = 1
    /\ lpc = "done"
    /\ query \in CutQueries
    /\ selected = NoneIndex
    /\ primed = NoneIndex
    /\ environments = <<>>
    /\ env_path = NoneIndex
    /\ active_env_index = NoneIndex
    /\ filtered_choices = <<>>
    /\ screen = [drawn |-> TRUE, row |-> NoneIndex, highlighted |-> NoneIndex, env |-> NoneIndex]
    /\ upc = "input"
    /\ picker_result = Pending
    /\ picker_ctrl_c = FALSE
    /\ pick_rpc = "interactive"

InitCutSpec == InitCut /\ IdleSubstitute /\ IdleTemplate /\ IdlePrompt /\ IdleRun

NextCut == KeyCtrlW /\ UNCHANGED otherThanPicker

\* Ctrl-W applied once to a query of the model
SpecCut == InitCutSpec /\ [][NextCut]_allVars

----------------------------------------------------------------------------
(* Reference notions the templating claims are stated with *)

Range(l) == {l[i] : i \in 1..Len(l)}

StrictlyAscending(l) == \A i \in 1..(Len(l) - 1) : StrLess(l[i], l[i + 1])

RECURSIVE SimSubst(_, _)
\* one left-to-right pass over t: an occurrence of {name} of a variable of vs
\* gives the variable's value, every other character is copied
SimSubst(t, vs) ==
    IF t = <<>> THEN <<>>
    ELSE LET hits == {i \in 1..Len(vs) : IsPrefix(Target(vs[i].name), t)}
         IN  IF hits = {} THEN <<Head(t)>> \o SimSubst(Tail(t), vs)
             ELSE LET i == CHOOSE k \in hits : TRUE
                  IN  vs[i].value \o SimSubst(Drop(t, Len(Target(vs[i].name))), vs)

RECURSIVE FlatScan(_, _, _)
FlatScan(t, inside, n) ==
    IF t = <<>> THEN ~inside
    ELSE IF Head(t) = OB THEN ~inside /\ FlatScan(Tail(t), TRUE, 0)
    ELSE IF Head(t) = CB THEN inside /\ n > 0 /\ FlatScan(Tail(t), FALSE, 0)
    ELSE FlatScan(Tail(t), inside, IF inside THEN n + 1 ELSE 0)

\* the braces of t are not nested: every "{" opens a placeholder "{name}" with
\* a non-empty brace-free name, and every "}" closes one
Flat(t) == FlatScan(t, FALSE, 0)

BraceFreeValues(vs) == \A i \in 1..Len(vs) : BraceFree(vs[i].value)

PairTexts(ps) == Flatten([i \in 1..Len(ps) |-> <<ps[i].name, ps[i].value>>])

\* the text fields of a definition: URL, header names and values, query
\* parameter names and values, body
FieldsOf(d) ==
    <<d.url>> \o PairTexts(d.headers.v) \o PairTexts(d.query.v)
    \o (IF d.body.type \in {"text", "json"} THEN <<d.body.text>> ELSE PairTexts(d.body.params))

BoundNames(vs) == {vs[i].name : i \in 1..Len(vs)}

----------------------------------------------------------------------------
(* Claims about templating.rs *)

\* C4: whatever the text and the variable set, the result of
\* substitute is the text with every occurrence of {name} of a variable of the
\* set replaced by that variable's value and everything else left verbatim.
\* It fails where C5 does: substitute("{a}", [a = "{b}", b = "a"]) is "a",
\* not "{b}".
C4_EveryOccurrenceReplaced ==
    spc = "returned" => output = SimSubst(base, variables)

\* C4 where inserted text cannot be matched again: when no value of the set
\* contains a brace and the braces of the text are not nested, the result of
\* substitute is the text with every
\* occurrence of {name} of a variable of the set replaced by that variable's
\* value, every other placeholder and character left verbatim.
C4_EveryOccurrenceReplacedFlat ==
    (spc = "returned" /\ Flat(base) /\ BraceFreeValues(variables))
        => output = SimSubst(base, variables)

\* a flat text with a bound and an unbound placeholder, substituted
C4_Witness ==
    /\ spc = "returned"
    /\ base = <<OB, "a", CB, OB, "b", CB, OB, "a", CB>>
    /\ variables = <<KeyValue(<<"a">>, <<"b">>)>>
    /\ output = <<"b", OB, "b", CB, "b">>

\* C5: substituting the text {name} of a variable of the set gives
\* that variable's value verbatim, whatever tokens the value contains and
\* whatever the order of the set.
\* It fails: [a = "{b}", b = "a"] turns "{a}" into "a", the replace for b
\* running over the text the replace for a inserted.
C5_ValueVerbatim ==
    spc = "returned" =>
        \A i \in 1..Len(variables) :
            base = Target(variables[i].name) => output = variables[i].value

\* C5 for the values no later replace matches: substituting the text {name} of a variable of the set gives that
\* variable's value verbatim when the value contains no {m} of a variable m
\* that comes later in the set's order (a value is not re-scanned for its own
\* variable nor for an earlier one, but it is for every later one).
C5_ValueVerbatimUnlessLaterToken ==
    spc = "returned" =>
        \A i \in 1..Len(variables) :
            (/\ base = Target(variables[i].name)
             /\ \A j \in (i + 1)..Len(variables) :
                    ~Contains(variables[i].value, Target(variables[j].name)))
                => output = variables[i].value

\* the value of the second variable holds the token of the first
\* and comes out verbatim
C5_Witness ==
    /\ spc = "returned"
    /\ Len(variables) = 2
    /\ base = Target(variables[2].name)
    /\ variables[2].value = Target(variables[1].name)
    /\ variables[1].value # Target(variables[1].name)
    /\ output = variables[2].value

\* C6: the list list_unbound_variables returns is strictly ascending (sorted,
\* no duplicates) and holds exactly the names the token scan finds in the URL,
\* the header names and values, the query parameter names and values and the
\* body; in particular every {name} of a field whose braces are not nested is
\* in the list.
C6_ListUnboundVariables ==
    tpc = "listed" =>
        /\ StrictlyAscending(unbound_variables)
        /\ Range(unbound_variables)
             = UNION {Range(unbound_in_string(FieldsOf(def)[k])) : k \in 1..Len(FieldsOf(def))}
        /\ \A k \in 1..Len(FieldsOf(def)) : \A n \in VarNames :
              (Flat(FieldsOf(def)[k]) /\ Contains(FieldsOf(def)[k], Target(n)))
                  => n \in Range(unbound_variables)

\* tokens of two fields, listed in ascending and not in field order
C6_Witness ==
    /\ tpc = "listed"
    /\ def.url = <<OB, "b", CB>>
    /\ def.headers.some /\ def.headers.v[1].name = <<OB, "a", CB>>
    /\ unbound_variables = << <<"a">>, <<"b">> >>

\* C7 as stated: after substitute_all with values that contain no brace, no
\* name bound in the variables is in the list of unbound variables.
\* Refuted: the URL "{{b}}" with [a = "c", b = "a"] becomes "{a}".
C7_NoBoundNameUnbound ==
    (tpc = "listed" /\ BraceFreeValues(vars))
        => \A n \in BoundNames(vars) : n \notin Range(unbound_variables)

\* C7 amended: after substitute_all with values that contain no brace on a
\* definition whose fields have no nested braces, no name bound in the
\* variables is in the list of unbound variables; when the variables bind
\* every name that was unbound before, the list is empty; and every field
\* holds the values in place of the bound tokens.
C7_NoBoundNameUnboundFlat ==
    (/\ tpc = "listed"
     /\ BraceFreeValues(vars)
     /\ \A k \in 1..Len(FieldsOf(def0)) : Flat(FieldsOf(def0)[k]))
        => /\ \A n \in BoundNames(vars) : n \notin Range(unbound_variables)
           /\ Range(list_unbound_variables(def0)) \subseteq BoundNames(vars)
                 => unbound_variables = <<>>
           /\ Len(FieldsOf(def)) = Len(FieldsOf(def0))
           /\ \A k \in 1..Len(FieldsOf(def0)) :
                 FieldsOf(def)[k] = SimSubst(FieldsOf(def0)[k], vars)

\* the URL-encoded body {a}={a} with a bound: the pair holds the value twice
\* and nothing is unbound
C7_Witness ==
    /\ tpc = "listed"
    /\ def0.body = UrlEncodedBody(<<KeyValue(<<OB, "a", CB>>, <<OB, "a", CB>>)>>)
    /\ def.body = UrlEncodedBody(<<KeyValue(<<"c">>, <<"c">>)>>)
    /\ BoundNames(vars) = {<<"a">>}
    /\ unbound_variables = <<>>

----------------------------------------------------------------------------
(* The picker: selection, catalog, lock *)

\* a selection index that fits a view of n rows
SelValid(sel, n) == IF n = 0 THEN ~sel.some ELSE sel.some /\ sel.v < n

\* the UI holds its read guard: the frame is between read() and the end of
\* the iteration
InFrame == upc \in {"filter", "draw", "input"}

\* C1: at every render and at every key-handling step of the picker the
\* selection index is None when the filtered view is empty and else Some(i)
\* with i < the length of the filtered view, whatever the query edits, the
\* navigation keys and the loader's updates before.
C1_SelectionInBounds ==
    /\ [](upc \in {"draw", "input"} => SelValid(selected, Len(filtered_choices)))
    /\ [][upc = "input" => SelValid(selected', Len(filtered_choices))]_allVars

\* a frame about to be drawn whose view is shorter than the row drawn before
\* was high: the selection has been brought back to the last row
C1_Witness ==
    /\ upc = "draw"
    /\ query # <<>>
    /\ screen.row.some
    /\ selected.some
    /\ Len(filtered_choices) > 0
    /\ screen.row.v > Len(filtered_choices)
    /\ selected.v = Len(filtered_choices) - 1

C9_NeitherBlocksTheOther ==
    /\ (lpc \in {"load", "store"} /\ upc = "top") => ReadGrantable
    /\ (upc = "input" /\ lpc = "lock") => WriteGrantable

\* C10: the UI never holds its read guard while the loader holds its write
\* guard, and no entry of the catalog changes in a step taken while a frame
\* (filtering, reconciliation, drawing, key handling) is under way.
C10_FrameSeesOneCatalog ==
    /\ [](~(rw_readers > 0 /\ rw_writer))
    /\ [](InFrame => rw_readers > 0)
    /\ [][InFrame => all_choices' = all_choices]_allVars

\* the UI inside a frame, waiting for its key, while the loader, part of the
\* catalog annotated, waits for its next write access
C10_Witness ==
    /\ upc = "input"
    /\ lpc = "lock"
    /\ loader_i > 1
    /\ loader_i <= Len(all_choices)

----------------------------------------------------------------------------
(* The prompt: cancel and answers *)

\* C2: once Ctrl-C was read in prompt_for_variables, also after answers
\* were given, the call returns None and no answers, and run ends without
\* sending the request.
C2_CancelReturnsNoneAndNothingIsSent ==
    ctrl_c =>
        /\ ppc = "returned" => prompt_ret = [kind |-> "none", v |-> <<>>]
        /\ ~sent
        /\ rpc \in {"prompting", "done"}

\* Ctrl-C read while the second name was prompted for, the first answered
\* (typed and written to the history): run has ended, nothing sent
C2_Witness ==
    /\ ctrl_c
    /\ Len(names) = 2
    /\ Len(result) = 1
    /\ Len(created_items) = 1
    /\ prompt_ret.kind = "none"
    /\ rpc = "done"
    /\ ~sent

\* C3: a list of answers prompt_for_variables returns holds one answer per
\* name, answer i for names[i], and without Ctrl-C the call returns such a
\* list: None is returned only after Ctrl-C.
C3_OneAnswerPerNameInOrder ==
    /\ prompt_ret.kind = "some" =>
          /\ Len(prompt_ret.v) = Len(names)
          /\ \A i \in 1..Len(names) : prompt_ret.v[i].name = names[i]
    /\ (ppc = "returned" /\ ~ctrl_c /\ prompt_ret.kind # "panic") => prompt_ret.kind = "some"
    /\ prompt_ret.kind = "none" => ctrl_c

\* two names answered, one by a typed value and one by a history item, and
\* the request sent with both
C3_Witness ==
    /\ prompt_ret.kind = "some"
    /\ Len(names) = 2
    /\ Len(prompt_ret.v) = 2
    /\ Len(created_items) = 1
    /\ ~ctrl_c
    /\ sent

----------------------------------------------------------------------------
(* The prompt: the history file *)

NoDuplicates(l) == \A i, j \in 1..Len(l) : l[i] = l[j] => i = j

Min(x, y) == IF x <= y THEN x ELSE y

\* C12: the history file, read without two records equal in name, value and
\* environment name, never holds two such records: not during the session,
\* with the records still in the writer counted in, not after a cancel, and
\* not after the rewrite that evicts the oldest records.
C12_HistoryHasNoDuplicates ==
    /\ NoDuplicates(history_file)
    /\ NoDuplicates(history_file \o writer_buf)

\* a session on a full history file: one answer was typed as the file already
\* had it or picked from it, one was new, and the file was rewritten
C12_Witness ==
    /\ ppc = "returned"
    /\ prompt_ret.kind = "some"
    /\ Len(result) = 2
    /\ Len(created_items) = 1
    /\ \E i \in 1..2 :
          HistoryContains(full_history, HistoryItem(result[i].name, result[i].value, env_name))
    /\ Len(full_history) = 2
    /\ max_history_items = SomeIndex(2)
    /\ Len(history_file) = 2

\* C13: when prompt_for_variables has returned, the history file holds the
\* last min(total, max) of the total = pre-existing + created records, in
\* their order: all of them when total <= max, else the oldest dropped.
C13_EvictionKeepsTheNewest ==
    (ppc = "returned" /\ prompt_ret.kind # "panic") =>
        LET all == full_history \o created_items
            total == Len(full_history) + Len(created_items)
            n == Min(total, MaxOf(max_history_items))
        IN  /\ Len(history_file) = n
            /\ \A k \in 1..n : history_file[k] = all[total - n + k]

\* a cancelled session with a maximum of one record: of two records read and
\* one created, the created one alone is left in the file
C13_Witness ==
    /\ ppc = "returned"
    /\ ctrl_c
    /\ Len(full_history) = 2
    /\ Len(created_items) = 1
    /\ max_history_items = SomeIndex(1)
    /\ history_file = created_items

\* C14: in every state where the prompt shows a variable, the records created
\* for the variables answered before are in the history file.
\* It fails: names [a, b], "a" typed and Enter: at the prompt for b the record
\* is in the csv writer's buffer and the file is as it was.
C14_CreatedItemIsInTheFile ==
    (ppc = "input" /\ prompt_ret.kind = "pending") =>
        \A k \in 1..Len(created_items) : created_items[k] \in Range(history_file)

----------------------------------------------------------------------------
(* The picker: the loader's progress, cancel and confirm *)

AllAnnotated == \A i \in 1..Len(all_choices) : all_choices[i].request_definition.some

C15_PickerCancelEndsRun ==
    picker_ctrl_c =>
        /\ ~primed.some
        /\ upc \in {"after", "returned"}
        /\ upc = "returned" => picker_result = [kind |-> "none", path |-> 0, env |-> NoneIndex]
        /\ pick_rpc \in {"interactive", "ended"}

\* Ctrl-C read with a query typed, a row selected, an environment active and
\* the loader half-way: run has ended
C15_Witness ==
    /\ picker_ctrl_c
    /\ query # <<>>
    /\ selected.some
    /\ active_env_index.some
    /\ lpc # "done"
    /\ loader_i > 1
    /\ pick_rpc = "ended"

\* C16: the path confirmed is the one highlighted in the last frame, whether
\* its file parses or not and whether the loader has parsed it yet or not;
\* interactive_mode returns what parsing that file again gives: the
\* selection when it parses, else the parse error (never None), which run
\* returns to its caller.
C16_ConfirmLoadsThePathAgain ==
    /\ (upc \in {"after", "returned"} /\ primed.some) =>
          /\ ~picker_ctrl_c
          /\ screen.highlighted = primed
    /\ (upc = "returned" /\ primed.some) =>
          /\ picker_result.path = primed.v
          /\ picker_result.kind = IF ParseFile(primed.v).ok THEN "selected" ELSE "error"
    /\ (pick_rpc # "interactive" /\ primed.some) =>
          pick_rpc = IF ParseFile(primed.v).ok THEN "selected" ELSE "failed"

\* the entry whose file does not parse, annotated with the error by the
\* loader, was highlighted and confirmed: run has failed
C16_Witness ==
    /\ pick_rpc = "failed"
    /\ picker_result.kind = "error"
    /\ screen.highlighted = SomeIndex(picker_result.path)
    /\ \E i \in 1..Len(all_choices) :
          /\ all_choices[i].path = picker_result.path
          /\ all_choices[i].request_definition.some
          /\ ~all_choices[i].request_definition.ok

----------------------------------------------------------------------------
(* The two filters *)

\* C20: with an empty query the picker's view is the whole catalog in catalog
\* order, parsed or not, and the prompt's view is every history entry of the
\* current variable and environment, in the order of the log: same length,
\* no entry dropped, none moved.
C20_EmptyQueryFiltersNothing ==
    /\ (upc = "draw" /\ query = <<>>) =>
          /\ Len(filtered_choices) = Len(all_choices)
          /\ \A i \in 1..Len(all_choices) : filtered_choices[i] = i
    /\ (ppc = "input" /\ prompt_query = <<>>) =>
          /\ Range(filtered_history_items)
                = {i \in 1..Len(full_history) :
                      /\ full_history[i].name = names[current_name_index + 1]
                      /\ full_history[i].env_name = env_name}
          /\ \A i \in 1..(Len(filtered_history_items) - 1) :
                filtered_history_items[i] < filtered_history_items[i + 1]

\* both filters applied with an empty query: a catalog of three entries, one
\* not parsed yet and one with an error, all three in the view; a log of two
\* entries of the variable and environment, both in the view
C20_Witness ==
    /\ upc = "draw"
    /\ query = <<>>
    /\ Len(all_choices) = 3
    /\ loader_i = 3
    /\ filtered_choices = <<1, 2, 3>>
    /\ ppc = "input"
    /\ prompt_query = <<>>
    /\ Len(full_history) = 2
    /\ filtered_history_items = <<1, 2>>

----------------------------------------------------------------------------
(* run: bindings, terminal, environments *)

NamesOf(kvs) == {kvs[i].name : i \in 1..Len(kvs)}

UniqueNames(kvs) == \A i, j \in 1..Len(kvs) : kvs[i].name = kvs[j].name => i = j

TtyError == "Running in interactive mode requires a TTY"

\* C17: after the merge every name of the environment and of the bindings
\* is in the variables exactly once, with the value of the last binding given
\* for it when there is one and else with the environment's value, and the
\* variables are in ascending order of their names.
C17_BindingsOverEnvironment ==
    tpc \in {"loaded", "substituted", "listed", "sent", "done", "panicked"} =>
        LET E == IF selected_env.some THEN selected_env.v.variables ELSE <<>>
            B == IF args_binding.some THEN args_binding.v ELSE <<>>
            last(n) == CHOOSE k \in 1..Len(B) :
                          B[k].name = n /\ \A m \in (k + 1)..Len(B) : B[m].name # n
        IN  /\ UniqueNames(vars)
            /\ \A i \in 1..(Len(vars) - 1) : StrLess(vars[i].name, vars[i + 1].name)
            /\ NamesOf(vars) = NamesOf(E) \cup NamesOf(B)
            /\ \A i \in 1..Len(vars) :
                  IF vars[i].name \in NamesOf(B)
                  THEN vars[i].value = B[last(vars[i].name)].value
                  ELSE \E k \in 1..Len(E) : E[k] = vars[i]

\* an environment that binds a, the bindings b and then a: a has the
\* binding's value, b is added after it, and the request is sent with both
C17_Witness ==
    /\ tpc = "sent"
    /\ selected_env = Some(Env1)
    /\ args_binding = Some(<<KeyValue(<<"b">>, <<"c">>), KeyValue(<<"a">>, <<"a">>)>>)
    /\ vars = <<KeyValue(<<"a">>, <<"a">>), KeyValue(<<"b">>, <<"c">>)>>
    /\ def0.url = <<OB, "a", CB>>
    /\ request.v.url = <<"a">>
    /\ request.v.body = TextBody(<<"c">>)

\* C18: when stdout is no terminal, no terminal is set up and no picker
\* shown; without --file run fails with the TTY error; with a definition
\* loaded, run fails with the TTY error when variables are unbound after the
\* substitution of the environment's variables and the bindings, and sends
\* the request when none is; a run that fails sends nothing.
C18_NoTerminalNoInteraction ==
    /\ [](~is_tty =>
            /\ ~terminal
            /\ ~interactive.shown
            /\ (~args_file.some /\ tpc # "args") =>
                  (tpc = "failed" /\ run_error = TtyError /\ ~request.some)
            /\ tpc = "failed" => ~request.some)
    /\ [][(~is_tty /\ tpc = "listed") =>
            IF unbound_variables # <<>>
            THEN tpc' = "failed" /\ run_error' = TtyError /\ ~request'.some
            ELSE tpc' = "sent" /\ request'.some /\ ~terminal']_allVars

\* --file, an environment and a binding that leave a variable unbound, no
\* terminal: the TTY error, nothing sent
C18_Witness ==
    /\ ~is_tty
    /\ args_file.some
    /\ vars # <<>>
    /\ def # def0
    /\ unbound_variables # <<>>
    /\ tpc = "failed"
    /\ run_error = TtyError
    /\ ~request.some

\* the environment files of the directory that bind a name twice
Duplicates(files) == {i \in 1..Len(files) : ~UniqueNames(files[i].variables)}

\* C19 as stated: an environment that binds a name twice makes run fail
\* before the picker is shown and before a request is sent, given with
\* --file and --environment or found in the environment directory.
\* Refuted for the directory: list_all_environments prints the error and
\* leaves the environment out, and the picker is shown.
C19_DuplicateIsHardError ==
    /\ (/\ args_file.some
        /\ DefinitionOnDisk(args_file.v).ok
        /\ args_environment.some
        /\ ~UniqueNames(EnvironmentFile(args_environment.v).variables)
        /\ tpc # "args")
          => (tpc = "failed" /\ run_error = "contains duplicate bindings" /\ ~request.some)
    /\ interactive.shown => Duplicates(environment_files) = {}

\* C19 amended: given with --file and --environment, an environment that
\* binds a name twice makes run fail with the duplicate error, nothing sent;
\* found in the environment directory before the picker, it is printed on
\* stderr and left out of the environments of the picker, which is shown
\* with the others; no environment that binds a name twice is ever the
\* selected one.
C19_DuplicateRejectedOrLeftOut ==
    /\ (/\ args_file.some
        /\ DefinitionOnDisk(args_file.v).ok
        /\ args_environment.some
        /\ ~UniqueNames(EnvironmentFile(args_environment.v).variables)
        /\ tpc # "args")
          => (tpc = "failed" /\ run_error = "contains duplicate bindings" /\ ~request.some)
    /\ interactive.shown =>
          /\ stderr = {environment_files[i].path : i \in Duplicates(environment_files)}
          /\ interactive.environments
                = SelectSeq(environment_files, LAMBDA f : UniqueNames(f.variables))
    /\ selected_env.some => UniqueNames(selected_env.v.variables)

\* the directory holds an environment that binds a twice: it was printed on
\* stderr, the picker was shown, another environment was selected and the
\* request sent
C19_Witness ==
    /\ interactive.shown
    /\ stderr = {3}
    /\ selected_env.some
    /\ tpc = "sent"

----------------------------------------------------------------------------
(* The two filters with a query *)

\* the score of the catalog's entry i for the picker's query, no environment
\* being active
PickerScore(i) == best_match(query, SearchTarget(all_choices[i], None))

\* the score of the history's item i for the prompt's query
PromptScore(i) == best_match(prompt_query, full_history[i].value)

NoRepeats(l) == \A i, j \in 1..Len(l) : l[i] = l[j] => i = j

NonIncreasing(l, score(_)) == \A i \in 1..(Len(l) - 1) : score(l[i]).v >= score(l[i + 1]).v

\* C21: with a query that is not empty, the picker's view holds each entry
\* of the catalog whose search target the query matches, once, and no other,
\* and the prompt's view each history item of the current name and
\* environment whose value the query matches, once, and no other; in both
\* views the scores do not increase from one index to the next.
C21_MatchesOnlyBestFirst ==
    /\ (upc = "draw" /\ query # <<>>) =>
          /\ Range(filtered_choices) = {i \in 1..Len(all_choices) : PickerScore(i).some}
          /\ NoRepeats(filtered_choices)
          /\ NonIncreasing(filtered_choices, PickerScore)
    /\ (ppc = "input" /\ prompt_query # <<>>) =>
          /\ Range(filtered_history_items)
                = {i \in 1..Len(full_history) :
                      /\ full_history[i].name = names[current_name_index + 1]
                      /\ full_history[i].env_name = env_name
                      /\ PromptScore(i).some}
          /\ NoRepeats(filtered_history_items)
          /\ NonIncreasing(filtered_history_items, PromptScore)

\* the picker's view of three parsed entries with the best score first and a
\* lower one last, and a prompt's view that leaves out a history item of the
\* current name and environment
C21_Witness ==
    /\ upc = "draw"
    /\ query = <<"a">>
    /\ Len(filtered_choices) = 3
    /\ PickerScore(filtered_choices[1]).v > PickerScore(filtered_choices[3]).v
    /\ ppc = "input"
    /\ prompt_query = <<"a", "b">>
    /\ Len(filtered_history_items) = 1
    /\ Cardinality(ForNameAndEnv(full_history, names[current_name_index + 1], env_name)) = 2

\* C22: entries of equal score are in the view in the order they have in the
\* catalog (the picker) and in the history (the prompt).
\* It fails: both views are sorted with sort_unstable_by, which may reorder
\* equal elements.
C22_EqualScoresKeepTheirOrder ==
    /\ (upc = "draw" /\ query # <<>>) =>
          \A i, j \in 1..Len(filtered_choices) :
              (i < j /\ PickerScore(filtered_choices[i]) = PickerScore(filtered_choices[j]))
                  => filtered_choices[i] < filtered_choices[j]
    /\ (ppc = "input" /\ prompt_query # <<>>) =>
          \A i, j \in 1..Len(filtered_history_items) :
              (i < j /\ PromptScore(filtered_history_items[i])
                          = PromptScore(filtered_history_items[j]))
                  => filtered_history_items[i] < filtered_history_items[j]

----------------------------------------------------------------------------
(* substitute applied twice *)

\* no value of the set holds a token: the pattern of unbound_in_string finds
\* nothing in it
NoValueHoldsAToken(vs) == \A i \in 1..Len(vs) : unbound_in_string(vs[i].value) = <<>>

\* C23 as stated: when no value of the set holds a token, substitute applied
\* to its own result with the same set gives that result.
\* Refuted: substitute("{{a}}", [b = "a", a = "b"]) is "{b}", and substitute
\* of that is "a"; the value forms a token with the braces around the
\* placeholder.
C23_SubstituteTwiceIsOnce ==
    (spc = "returned" /\ NoValueHoldsAToken(variables))
        => substitute(output, variables).text = output

\* C23 amended: when no value of the set contains a brace and the braces of
\* the text are not nested, substitute applied to its own result with the
\* same set replaces nothing and gives that result.
C23_SubstituteTwiceIsOnceFlat ==
    (spc = "returned" /\ Flat(base) /\ BraceFreeValues(variables))
        => /\ substitute(output, variables).text = output
           /\ ~substitute(output, variables).changed

\* both placeholders of a flat text replaced, each by the other's name: the
\* result holds no token and a second call leaves it
C23_Witness ==
    /\ spc = "returned"
    /\ base = <<OB, "a", CB, OB, "b", CB>>
    /\ variables = <<KeyValue(<<"a">>, <<"b">>), KeyValue(<<"b">>, <<"a">>)>>
    /\ output = <<"b", "a">>
    /\ is_owned

----------------------------------------------------------------------------
(* The prompt: the confirm key *)

CurrentName == names[current_name_index + 1]

\* C24: Enter with an empty query and no history item selected records no
\* answer, writes nothing to the history writer or file, leaves the index of
\* the current name, the mode and the query as they are, and the loop goes
\* on to the next frame; no answer and no item created in the session has an
\* empty value.
C24_EmptyConfirmIsNoOp ==
    /\ [][(PromptEnter /\ prompt_query = <<>> /\ ~active_history_item_index.some) =>
            /\ UNCHANGED <<result, writer_buf, created_items, history_file,
                           current_name_index, active_history_item_index, prompt_query>>
            /\ ppc' = "frame"]_allVars
    /\ [](/\ \A i \in 1..Len(result) : result[i].value # <<>>
          /\ \A i \in 1..Len(created_items) : created_items[i].value # <<>>
          /\ \A i \in 1..Len(writer_buf) : writer_buf[i].value # <<>>)

\* the second name prompted for, after a typed answer to the first: a frame
\* drawn, the query empty, no history item selected, still one answer
C24_Witness ==
    /\ ppc = "frame"
    /\ current_name_index = 1
    /\ prompt_screen.name = names[2]
    /\ ~prompt_screen.row.some
    /\ prompt_query = <<>>
    /\ ~active_history_item_index.some
    /\ Len(result) = 1
    /\ Len(created_items) = 1

\* C25: Enter while an entry of the filtered list is highlighted records
\* the value of that entry as the answer for the current name; the entry is
\* one recorded for the current name and the current environment; the query
\* is not looked at, and nothing is written to the history writer or kept in
\* created_items.
C25_ConfirmTakesTheHistoryValue ==
    [][(/\ PromptEnter
        /\ active_history_item_index.some
        /\ active_history_item_index.v < Len(filtered_history_items)) =>
          LET item == full_history[filtered_history_items[active_history_item_index.v + 1]]
          IN  /\ result' = Append(result, KeyValue(CurrentName, item.value))
              /\ item.name = CurrentName
              /\ item.env_name = env_name
              /\ UNCHANGED <<writer_buf, created_items, history_file>>]_allVars

\* the frame for the first name showed a highlighted row, the first name has
\* its answer, the value "ab" of a history item, nothing was created, and
\* the history holds an item of the other environment too
C25_Witness ==
    /\ ppc = "frame"
    /\ current_name_index = 1
    /\ prompt_screen.name = names[1]
    /\ prompt_screen.row.some
    /\ result = <<KeyValue(names[1], <<"a", "b">>)>>
    /\ created_items = <<>>
    /\ writer_buf = <<>>
    /\ \E i \in 1..Len(full_history) :
          full_history[i].name = names[1] /\ full_history[i].env_name # env_name

\* C26: Enter in typing mode with a query that is not empty records the
\* query as the answer for the current name; the item (name, query,
\* environment name) is written to the history writer and kept in
\* created_items when neither the history read at the start nor the items
\* created since hold an equal one, and else nothing is written.
C26_TypedAnswerRecordedOnce ==
    [][(PromptEnter /\ ~active_history_item_index.some /\ prompt_query # <<>>) =>
          LET item == HistoryItem(CurrentName, prompt_query, env_name)
          IN  /\ result' = Append(result, KeyValue(CurrentName, prompt_query))
              /\ IF \E i \in 1..Len(AllHistory) : AllHistory[i] = item
                 THEN UNCHANGED <<writer_buf, created_items>>
                 ELSE /\ writer_buf' = Append(writer_buf, item)
                      /\ created_items' = Append(created_items, item)]_allVars

\* two typed answers: the first is in the history already and nothing was
\* written for it, the second is new and was written
C26_Witness ==
    /\ ppc = "after"
    /\ Len(names) = 2
    /\ Len(result) = 2
    /\ ~prompt_screen.row.some
    /\ \E i \in 1..Len(full_history) :
          full_history[i] = HistoryItem(names[1], result[1].value, env_name)
    /\ created_items = <<HistoryItem(names[2], result[2].value, env_name)>>
    /\ writer_buf = created_items

----------------------------------------------------------------------------
(* The picker: its keys and its start *)

InLoop == upc \in {"top", "filter", "draw", "input"}

\* the path of the entry the selection is on
SelectedPath == all_choices[filtered_choices[selected.v + 1]].path

\* C27: primed is None in every iteration of the loop; it changes only in
\* an Enter step with an entry selected, from None to the path of that
\* entry, and that step leaves the loop; Enter with nothing selected changes
\* nothing of the picker's state and the loop goes on.
C27_PrimedOnceByConfirm ==
    /\ [](InLoop => ~primed.some)
    /\ [][primed' # primed =>
            /\ KeyEnter
            /\ selected.some
            /\ ~primed.some
            /\ primed' = SomeIndex(SelectedPath)
            /\ upc' = "after"]_allVars
    /\ [][(KeyEnter /\ selected.some) => (primed'.some /\ upc' = "after")]_allVars
    /\ [][(KeyEnter /\ ~selected.some) =>
            /\ filtered_choices = <<>>
            /\ UNCHANGED <<query, selected, primed, active_env_index, environments,
                           all_choices, picker_result, picker_ctrl_c>>
            /\ upc' = "top"]_allVars

\* the loop left by Enter on the best match of the query "b", the file
\* whose path starts with it
C27_Witness ==
    /\ upc = "after"
    /\ ~picker_ctrl_c
    /\ query = <<"b">>
    /\ selected = SomeIndex(0)
    /\ primed = SomeIndex(3)

\* C28: Up adds one to the selection index unless it is the last index of
\* the filtered view, Down takes one off unless it is 0, both leave a
\* selection of None as it is; the index stays inside the view, and neither
\* key changes the query, the active environment or primed.
C28_SelectionMovesClamped ==
    /\ [][KeyUp =>
            /\ selected' = IF selected.some /\ selected.v + 1 # Len(filtered_choices)
                            THEN SomeIndex(selected.v + 1) ELSE selected
            /\ selected'.some => selected'.v < Len(filtered_choices)
            /\ UNCHANGED <<query, active_env_index, primed>>]_allVars
    /\ [][KeyDown =>
            /\ selected' = IF selected.some /\ selected.v # 0
                            THEN SomeIndex(selected.v - 1) ELSE selected
            /\ selected'.some => selected'.v \in 0..(Len(filtered_choices) - 1)
            /\ UNCHANGED <<query, active_env_index, primed>>]_allVars

\* the selection on the last of three entries, where a frame has shown it
\* already and a key was read since
C28_Witness ==
    /\ upc = "top"
    /\ Len(filtered_choices) = 3
    /\ selected = SomeIndex(2)
    /\ screen.row = SomeIndex(2)

\* the place of an active_env_index in the cycle None, 0, .., n - 1
CyclePlace(idx) == IF idx.some THEN idx.v + 1 ELSE 0

\* the active_env_index at a place of the cycle
AtCyclePlace(k) == IF k = 0 THEN NoneIndex ELSE SomeIndex(k - 1)

\* one place forward and one place backward in the cycle of the loaded
\* environments
CycleForward(idx) ==
    AtCyclePlace((CyclePlace(idx) + 1) % (Len(environments) + 1))

CycleBackward(idx) ==
    AtCyclePlace((CyclePlace(idx) + Len(environments)) % (Len(environments) + 1))

\* C29: with n environments loaded, Tab moves the active index one place
\* forward and BackTab one place backward in the cycle None, 0, .., n - 1,
\* None; the index is None or smaller than n, stays None when n is 0, and
\* from every index one step forward and one backward, in either order,
\* lead back to it.
C29_EnvironmentCycle ==
    /\ [](active_env_index.some => active_env_index.v < Len(environments))
    /\ [](environments = <<>> => ~active_env_index.some)
    /\ [][KeyTab => active_env_index' = CycleForward(active_env_index)]_allVars
    /\ [][KeyBackTab => active_env_index' = CycleBackward(active_env_index)]_allVars
    /\ [](/\ CycleBackward(CycleForward(active_env_index)) = active_env_index
          /\ CycleForward(CycleBackward(active_env_index)) = active_env_index)

\* two environments, the last frame showed the second as the active one, and
\* no environment is active now: Tab went from the last one to None
C29_Witness ==
    /\ Len(environments) = 2
    /\ upc = "top"
    /\ screen.env = SomeIndex(1)
    /\ ~active_env_index.some

\* C30: until the first frame is drawn the query is empty, the selection is
\* on index 0 when the catalog has an entry and None when it has none, and
\* the active environment is the loaded one whose path is the --environment
\* path, None when no path was given or no loaded environment has it.
C30_PickerStart ==
    ~screen.drawn =>
        /\ query = <<>>
        /\ selected = IF Len(all_choices) > 0 THEN SomeIndex(0) ELSE NoneIndex
        /\ IF env_path.some /\ \E i \in 1..Len(environments) : environments[i].path = env_path.v
           THEN /\ active_env_index.some
                /\ active_env_index.v < Len(environments)
                /\ environments[active_env_index.v + 1].path = env_path.v
           ELSE ~active_env_index.some

\* the first frame about to be drawn: three entries, the first selected, and
\* the second of two environments active, the one --environment names
C30_Witness ==
    /\ upc = "draw"
    /\ ~screen.drawn
    /\ Len(all_choices) = 3
    /\ selected = SomeIndex(0)
    /\ Len(environments) = 2
    /\ env_path = SomeIndex(2)
    /\ active_env_index = SomeIndex(1)

----------------------------------------------------------------------------
(* substitute's flag and the token scan *)

RECURSIVE ReplacedSome(_, _)
\* whether a replace of substitute's loop finds its target: out is the
\* output so far, vs the variables still to apply
ReplacedSome(out, vs) ==
    IF vs = <<>> THEN FALSE
    ELSE \/ Contains(out, Target(Head(vs).name))
         \/ ReplacedSome(Replace(out, Target(Head(vs).name), Head(vs).value), Tail(vs))

\* C31: the flag substitute returns is true when an occurrence of a
\* placeholder was replaced and false when none was, and with a false flag
\* the text returned is the input.
\* It fails: substitute("{a}", [a = "{a}"]) replaces the occurrence by the
\* same text and returns false, the flag being output != base.
C31_FlagTellsReplacement ==
    spc = "returned" =>
        /\ is_owned <=> ReplacedSome(base, variables)
        /\ ~is_owned => output = base

\* C32: every name the token scan returns is not empty and contains no
\* brace.
\* It fails: the pattern is \{(.+?)\}, whose group takes any character but
\* a newline, so "{{b}}" gives the name "{b".
C32_TokenNamesHaveNoBrace ==
    tpc = "listed" =>
        \A i \in 1..Len(unbound_variables) :
            unbound_variables[i] # <<>> /\ BraceFree(unbound_variables[i])

----------------------------------------------------------------------------
(* The prompt: its two modes *)

Browsing == active_history_item_index.some

\* C33: the prompt goes from typing to browsing only by Tab or BackTab with a
\* filtered list that is not empty, and then index 0 is selected; with an
\* empty list the key leaves it typing; Tab or BackTab while browsing goes
\* back to typing.
C33_BrowsingEnteredOnlyWithItems ==
    /\ [][(~Browsing /\ Browsing') =>
            /\ PromptTab
            /\ filtered_history_items # <<>>
            /\ active_history_item_index' = SomeIndex(0)]_allVars
    /\ [][(PromptTab /\ ~Browsing) =>
            active_history_item_index' =
                IF filtered_history_items # <<>> THEN SomeIndex(0) ELSE NoneIndex]_allVars
    /\ [][(PromptTab /\ Browsing) => ~Browsing']_allVars

\* browsing on index 0, entered since the last frame, which showed the
\* typing mode
C33_Witness ==
    /\ ppc = "frame"
    /\ prompt_screen.drawn
    /\ ~prompt_screen.row.some
    /\ active_history_item_index = SomeIndex(0)
    /\ filtered_history_items # <<>>

\* C34: while a history item is selected, a character key, Backspace, Ctrl-W
\* and Ctrl-U leave the query as it is; while none is selected, Up and Down
\* leave the selection None.
\* It fails: the four arms edit state.query whatever the mode.
C34_QueryEditedOnlyWhileTyping ==
    /\ [][(Browsing /\ (PromptChar \/ PromptBackspace \/ PromptCtrlW \/ PromptCtrlU))
            => prompt_query' = prompt_query]_allVars
    /\ [][(~Browsing /\ (PromptUp \/ PromptDown)) => ~Browsing']_allVars

\* C36: when a key is read while a history item is selected, the index is
\* inside the list filtered by the current query, which is therefore not
\* empty.
\* It fails: a character typed while browsing narrows the list under the
\* index.
C36_BrowsingIndexInsideTheList ==
    (ppc = "input" /\ Browsing)
        => active_history_item_index.v < Len(filtered_history_items)

\* C37: at the top of every iteration there are as many answers as the
\* index of the current name, which is smaller than the number of names,
\* and answer i has the name names[i], also after the loop; a step changes
\* the index only by adding one, in an Enter step, and keeps the answers it
\* found, in place.
C37_AnswersFollowTheIndex ==
    /\ [](ppc \in {"frame", "input"} =>
            /\ Len(result) = current_name_index
            /\ current_name_index < Len(names))
    /\ [](/\ Len(result) <= Len(names)
          /\ \A i \in 1..Len(result) : result[i].name = names[i])
    /\ [][/\ current_name_index' \in {current_name_index, current_name_index + 1}
          /\ current_name_index' # current_name_index => PromptEnter
          /\ Len(result') >= Len(result)
          /\ SubSeq(result', 1, Len(result)) = result]_allVars

\* the second of two names prompted for, the first answered from the history
C37_Witness ==
    /\ ppc = "input"
    /\ Len(names) = 2
    /\ current_name_index = 1
    /\ Len(result) = 1
    /\ result[1].name = names[1]
    /\ created_items = <<>>
    /\ prompt_screen.name = names[2]

----------------------------------------------------------------------------
(* The loader's guard, the confirmed entry, substitute_all's frame, Ctrl-W *)

\* C35: the catalog changes only while the loader holds the write guard, in
\* one entry, the one at the loader's index, and the guard is released in the
\* same step; the guard is taken only by the loader's acquire, once for each
\* entry, and is not held while the loader waits for it or has ended, so
\* that a read can be granted after every update.
C35_GuardHeldForOneEntry ==
    /\ [][all_choices' # all_choices =>
            /\ rw_writer /\ ~rw_writer'
            /\ loader_i' = loader_i + 1
            /\ \A k \in 1..Len(all_choices) : k # loader_i => all_choices'[k] = all_choices[k]]_allVars
    /\ [][(~rw_writer /\ rw_writer') => (LoaderAcquire /\ loader_i' = loader_i)]_allVars
    /\ [](lpc \in {"lock", "done"} => ~rw_writer)

\* between the first update and the second: the first entry annotated, the
\* second not, the loader waiting for the guard and the UI holding a read
C35_Witness ==
    /\ Len(all_choices) = 3
    /\ loader_i = 2
    /\ lpc = "lock"
    /\ all_choices[1].request_definition.some
    /\ ~all_choices[2].request_definition.some
    /\ rw_readers = 1
    /\ upc = "input"

\* C39: the path a confirmed run returns is the path of the entry the last
\* frame drawn highlighted, and the environment it returns is the one that
\* frame's prompt named.
C39_ReturnsWhatTheFrameShowed ==
    /\ primed.some => (screen.drawn /\ screen.highlighted = primed)
    /\ picker_result.kind = "selected" =>
          /\ screen.highlighted = SomeIndex(picker_result.path)
          /\ picker_result.env = IF screen.env.some
                                  THEN SomeIndex(environments[screen.env.v + 1].path)
                                  ELSE NoneIndex

\* every entry annotated, a query typed, the second row of the view
\* confirmed with an environment active
C39_Witness ==
    /\ picker_result.kind = "selected"
    /\ lpc = "done"
    /\ query # <<>>
    /\ screen.row = SomeIndex(1)
    /\ picker_result.env.some

\* the text {name} of some variable of vs occurs in t
SomeTargetIn(t, vs) == \E i \in 1..Len(vs) : Contains(t, Target(vs[i].name))

PairsKept(new, old) ==
    /\ Len(new) = Len(old)
    /\ \A i \in 1..Len(old) :
          /\ new[i].name = substitute(old[i].name, vars).text
          /\ new[i].value = substitute(old[i].value, vars).text

\* C38: after substitute_all the method and the metadata are what they
\* were, the headers, the query parameters and the pairs of a URL-encoded
\* body are as many as before, each at its place, the sections absent before
\* are absent, the body has the variant it had, and when the text {name} of
\* no variable occurs in any field the definition is what it was.
C38_SubstituteAllKeepsTheShape ==
    tpc \in {"substituted", "listed"} =>
        /\ def.method = def0.method
        /\ def.metadata = def0.metadata
        /\ def.headers.some = def0.headers.some
        /\ def.query.some = def0.query.some
        /\ PairsKept(def.headers.v, def0.headers.v)
        /\ PairsKept(def.query.v, def0.query.v)
        /\ def.body.type = def0.body.type
        /\ PairsKept(def.body.params, def0.body.params)
        /\ def0.body.type \in {"none", "urlencoded"} => def.body.text = def0.body.text
        /\ (\A i \in 1..Len(FieldsOf(def0)) : ~SomeTargetIn(FieldsOf(def0)[i], vars))
              => def = def0

\* two headers and a JSON body: the second header and the body changed, the
\* first header did not
C38_Witness ==
    /\ tpc = "substituted"
    /\ def0.body.type = "json"
    /\ def.body.text # def0.body.text
    /\ Len(def0.headers.v) = 2
    /\ def.headers.v[1] = def0.headers.v[1]
    /\ def.headers.v[2] # def0.headers.v[2]

\* the length of the longest prefix of s that is empty or ends with a space
\* and is followed in s by a character that is no space
CutPoint(s) ==
    Max({k \in 0..Len(s) :
            /\ k = 0 \/ s[k] = " "
            /\ k = 0 \/ \E j \in (k + 1)..Len(s) : s[j] # " "})

\* C40: Ctrl-W leaves the prefix of the query that ends before the last run
\* of characters other than spaces: the trailing spaces and that run are
\* removed and nothing more; what is left is empty or ends with a space; a
\* query of spaces, of one word or empty becomes empty.
C40_CutToCurrentWordStart ==
    [][KeyCtrlW =>
        /\ query' = SubSeq(query, 1, CutPoint(query))
        /\ IsPrefix(query', query)
        /\ query' = <<>> \/ query'[Len(query')] = " "
        /\ (\A i \in 1..Len(query) : query[i] = " ") => query' = <<>>
        /\ (\A i, j \in 1..Len(query) : (i < j /\ query[i] = " ") => query[j] = " ")
              => query' = <<>>]_allVars

\* what Ctrl-W left of a query of two words: the first word and the spaces
\* after it
C40_Witness ==
    /\ upc = "top"
    /\ query = <<"a", " ", " ">>

====
